---- MODULE Spec2Model ----
(***************************************************************************)
(* Model of the langchain_llm package.                                     *)
(* Configuration layer (src/src/langchain_llm/config.py): the environment- *)
(* backed provider lookups of EnvConfigProvider, the module-level wrappers *)
(* around the singleton _default_config, and the .env loader               *)
(* load_env_config.                                                        *)
(* Logging layer (src/src/langchain_llm/logging_config.py):                *)
(* CustomFormatter and setup_logging.                                      *)
(* Around the package: the notebook synchroniser                           *)
(* (src/scripts/sync_notebooks.py: sync_file, main, enhance_notebook) and  *)
(* the example scripts (src/examples/01_basic.py, 04_advanced.py: main and *)
(* TokenCounterCallback).                                                  *)
(*                                                                         *)
(* Text is modelled as follows.  A provider name is a tuple of one-        *)
(* character strings, so that str.lower() is a real per-character          *)
(* conversion.  Environment variable names and values are opaque strings.  *)
(* An error message is the tuple of the fragments its f-string is built    *)
(* from; a fragment is [lit |-> literal text, name |-> provider name].     *)
(***************************************************************************)
EXTENDS Integers, Sequences, FiniteSets, TLC

VARIABLES
    environ,        \* os.environ restricted to the EADLANGCHAIN_ variables
    cwd,            \* Path.cwd(): the working directory
    dotenv_files,   \* which directories hold a .env file
    interactive,    \* the interpreter has no __main__.__file__ (REPL, notebook)
    last,           \* the most recent call and its outcome
    markers,        \* the project-marker file each directory holds, if any
    formatter,      \* the CustomFormatter under study: its project_root
    root_logger,    \* logging.getLogger(): its level and its handlers
    log_last,       \* the most recent call into logging_config and its outcome,
                    \* forgotten once what it read or installed is touched
    log_fs,         \* the log directories and log files that exist
    now,            \* the file system's clock
    nb_files,       \* examples/: each example's .py file and its notebook
    sync_env,       \* whether jupytext runs and whether examples/ exists
    sync_last,      \* the most recent run of sync_file or main, forgotten
                    \* once a file or the environment it saw is touched
    callback,       \* a TokenCounterCallback: its counters
    llm_events,     \* the llm_output of every on_llm_end event it has seen
    summary,        \* what get_summary returned, forgotten at the next event
    example_run,    \* an example script's main(): where it is and what it has
                    \* called, logged and printed so far
    enhance_last    \* the most recent run of enhance_notebook

logvars == <<markers, formatter, root_logger, log_last, log_fs>>

syncvars == <<now, nb_files, sync_env, sync_last>>

demovars == <<callback, llm_events, summary, example_run, enhance_last>>

\* the variables outside the langchain_llm package
extvars == <<syncvars, demovars>>

vars == <<environ, cwd, dotenv_files, interactive, last, markers, formatter,
          root_logger, log_last, log_fs, now, nb_files, sync_env, sync_last,
          callback, llm_events, summary, example_run, enhance_last>>

----------------------------------------------------------------------------
(* Values *)

\* Python's None
None == "None"

\* a test "is not None" in place of truthiness
Truthy_is_not_None(x) == x /= None

\* bool(x) for x a str or None
Truthy(x) == x /= None /\ x /= ""

\* API-key values an operator may put into the environment
KeyValues == {"", "sk-1"}

\* model-name values an operator may put into the environment
ModelValues == {"gpt-4o"}

----------------------------------------------------------------------------
(* Provider names *)

openai == <<"o", "p", "e", "n", "a", "i">>

anthropic == <<"a", "n", "t", "h", "r", "o", "p", "i", "c">>

gemini == <<"g", "e", "m", "i", "n", "i">>

\* spellings passed as the provider argument
ProviderArgs ==
    { openai,
      <<"O", "p", "e", "n", "A", "I">>,
      <<"O", "P", "E", "N", "A", "I">>,
      anthropic,
      <<"A", "n", "t", "h", "r", "o", "p", "i", "c">>,
      <<"G", "E", "M", "I", "N", "I">>,
      <<"n", "o", "t", "-", "a", "-", "p", "r", "o", "v", "i", "d", "e", "r">>,
      <<>> }

UpperToLower ==
    [c \in {"A", "C", "E", "G", "H", "I", "M", "N", "O", "P", "R", "T"} |->
        CASE c = "A" -> "a" [] c = "C" -> "c" [] c = "E" -> "e"
          [] c = "G" -> "g" [] c = "H" -> "h" [] c = "I" -> "i"
          [] c = "M" -> "m" [] c = "N" -> "n" [] c = "O" -> "o"
          [] c = "P" -> "p" [] c = "R" -> "r" [] c = "T" -> "t"]

\* a lookup that forgets to normalise the case
lower_identity(s) == s

\* str.lower(), character by character
lower(s) ==
    [i \in DOMAIN s |-> IF s[i] \in DOMAIN UpperToLower THEN UpperToLower[s[i]] ELSE s[i]]

----------------------------------------------------------------------------
(* EnvConfigProvider class attributes *)

PROVIDER_MAP ==
    (openai :> "EADLANGCHAIN_AI_OPENAI_API_KEY")
    @@ (anthropic :> "EADLANGCHAIN_AI_ANTHROPIC_API_KEY")
    @@ (gemini :> "EADLANGCHAIN_AI_GEMINI_API_KEY")

MODEL_MAP ==
    (openai :> "EADLANGCHAIN_AI_OPENAI_MODEL")
    @@ (anthropic :> "EADLANGCHAIN_AI_ANTHROPIC_MODEL")
    @@ (gemini :> "EADLANGCHAIN_AI_GEMINI_MODEL")

KeyVars == {PROVIDER_MAP[p] : p \in DOMAIN PROVIDER_MAP}

ModelVars == {MODEL_MAP[p] : p \in DOMAIN MODEL_MAP}

EnvVars == KeyVars \cup ModelVars

\* sorted(self.PROVIDER_MAP.keys())
valid_providers == <<anthropic, gemini, openai>>

----------------------------------------------------------------------------
(* Outcomes and messages *)

Lit(s) == [lit |-> s, name |-> <<>>]

Name(p) == [lit |-> "", name |-> p]

Return(v) == [kind |-> "return", exc |-> "", value |-> v, msg |-> <<>>]

Raise(e, m) == [kind |-> "raise", exc |-> e, value |-> None, msg |-> m]

\* the literal fragment s occurs in message m
Contains(m, s) == \E i \in DOMAIN m : m[i].lit = s

\* ", ".join(valid_providers)
JoinProviders ==
    <<Name(valid_providers[1]), Lit(", "), Name(valid_providers[2]), Lit(", "),
      Name(valid_providers[3])>>

UnknownProviderMsg(provider) ==
    <<Lit("Unknown provider"), Lit(": "), Name(provider), Lit(". "),
      Lit("Supported providers: ")>> \o JoinProviders

KeyNotFoundMsg(provider, env_var) ==
    <<Lit("API key not found"), Lit(" for provider '"), Name(provider), Lit("'. "),
      Lit("Please set "), Lit(env_var),
      Lit(" in your .env file or environment variables. "),
      Lit("See .env.example for template.")>>

----------------------------------------------------------------------------
(* EnvConfigProvider methods, as functions of the current environment *)

\* os.getenv(name): the value, or None when the variable is not set
os_getenv(name) == IF name \in DOMAIN environ THEN environ[name] ELSE None

\* a get_key that treats every lookup as required
get_key_always_required(provider_arg, required) ==
    LET provider == lower(provider_arg) IN
    IF provider \notin DOMAIN PROVIDER_MAP
    THEN Raise("ValueError", UnknownProviderMsg(provider))
    ELSE LET env_var == PROVIDER_MAP[provider]
             api_key == os_getenv(env_var)
         IN  IF ~Truthy(api_key)
             THEN Raise("ConfigError", KeyNotFoundMsg(provider, env_var))
             ELSE Return(api_key)

\* a get_key that, like get_model_name, answers None for an unknown provider
\* unless the key is required
get_key_lenient(provider_arg, required) ==
    LET provider == lower(provider_arg) IN
    IF provider \notin DOMAIN PROVIDER_MAP
    THEN IF required THEN Raise("ValueError", UnknownProviderMsg(provider))
                     ELSE Return(None)
    ELSE LET env_var == PROVIDER_MAP[provider]
             api_key == os_getenv(env_var)
         IN  IF required /\ ~Truthy(api_key)
             THEN Raise("ConfigError", KeyNotFoundMsg(provider, env_var))
             ELSE Return(api_key)

\* a get_key whose required check is "api_key is None"
get_key_unset_only(provider_arg, required) ==
    LET provider == lower(provider_arg) IN
    IF provider \notin DOMAIN PROVIDER_MAP
    THEN Raise("ValueError", UnknownProviderMsg(provider))
    ELSE LET env_var == PROVIDER_MAP[provider]
             api_key == os_getenv(env_var)
         IN  IF required /\ api_key = None
             THEN Raise("ConfigError", KeyNotFoundMsg(provider, env_var))
             ELSE Return(api_key)

\* EnvConfigProvider.get_key, statement by statement
get_key_code(provider_arg, required) ==
    LET provider == lower(provider_arg) IN
    IF provider \notin DOMAIN PROVIDER_MAP
    THEN Raise("ValueError", UnknownProviderMsg(provider))
    ELSE LET env_var == PROVIDER_MAP[provider]
             api_key == os_getenv(env_var)
         IN  IF required /\ ~Truthy(api_key)
             THEN Raise("ConfigError", KeyNotFoundMsg(provider, env_var))
             ELSE Return(api_key)

\* a get_key that remembers the answer it gave to the same question
get_key_memo(provider_arg, required) ==
    IF last.op = "get_key" /\ last.provider = provider_arg /\ last.required = required
    THEN last.outcome
    ELSE get_key_code(provider_arg, required)

\* EnvConfigProvider.get_key as the other methods and the wrappers call it:
\* the receiver keeps no state between calls
get_key(provider_arg, required) == get_key_code(provider_arg, required)

\* a get_all_keys that leaves out the providers whose variable is not set
get_all_keys_only_set ==
    LET set_providers == {p \in DOMAIN PROVIDER_MAP : PROVIDER_MAP[p] \in DOMAIN environ}
    IN  Return([p \in set_providers |-> environ[PROVIDER_MAP[p]]])

get_all_keys ==
    Return((openai :> os_getenv("EADLANGCHAIN_AI_OPENAI_API_KEY"))
           @@ (anthropic :> os_getenv("EADLANGCHAIN_AI_ANTHROPIC_API_KEY"))
           @@ (gemini :> os_getenv("EADLANGCHAIN_AI_GEMINI_API_KEY")))

\* a validate that wraps whatever get_key raises into a ConfigError
validate_wrapping(provider_arg) ==
    LET r == get_key(provider_arg, TRUE) IN
    IF r.kind = "raise"
    THEN Raise("ConfigError", <<Lit("Validation failed: ")>> \o r.msg)
    ELSE Return(None)

\* the call's value is dropped; an exception propagates as it is
validate(provider_arg) ==
    LET r == get_key(provider_arg, TRUE) IN
    IF r.kind = "raise" THEN r ELSE Return(None)

\* a get_model_name that is as strict as get_key
get_model_name_strict(provider_arg) ==
    LET provider == lower(provider_arg) IN
    IF provider \notin DOMAIN MODEL_MAP
    THEN Raise("ValueError", UnknownProviderMsg(provider))
    ELSE Return(os_getenv(MODEL_MAP[provider]))

get_model_name(provider_arg) ==
    LET provider == lower(provider_arg) IN
    IF provider \notin DOMAIN MODEL_MAP
    THEN Return(None)
    ELSE Return(os_getenv(MODEL_MAP[provider]))

\* module-level wrappers around the singleton _default_config
get_api_key(provider_arg, required) == get_key(provider_arg, required)

get_all_api_keys == get_all_keys

validate_provider(provider_arg) == validate(provider_arg)

module_get_model_name(provider_arg) == get_model_name(provider_arg)

----------------------------------------------------------------------------
(* Directories and .env files *)

Root == <<>>

\* the directory of config.py, whose frame calls load_dotenv()
ModuleDir == <<"proj", "src", "langchain_llm">>

\* the deepest working directory outside the project tree
WorkDir == <<"work", "sub">>

\* [d] + list(d.parents): d, its parent, ..., the filesystem root
Chain(d) == [i \in 1..(Len(d) + 1) |-> SubSeq(d, 1, Len(d) + 1 - i)]

Range(f) == {f[i] : i \in DOMAIN f}

Dirs == Range(Chain(ModuleDir)) \cup Range(Chain(WorkDir))

\* at most this many directories hold a .env file
MaxEnvFiles == 2

\* the NAME=VALUE lines of the .env file of each directory
DotenvContent(d) ==
    CASE d = Root -> ("EADLANGCHAIN_AI_GEMINI_API_KEY" :> "sk-root")
      [] d = <<"proj">> -> ("EADLANGCHAIN_AI_OPENAI_API_KEY" :> "sk-proj")
                           @@ ("EADLANGCHAIN_AI_OPENAI_MODEL" :> "gpt-4o")
      [] d = <<"proj", "src">> -> ("EADLANGCHAIN_AI_ANTHROPIC_API_KEY" :> "sk-src")
      [] d = ModuleDir -> ("EADLANGCHAIN_AI_OPENAI_API_KEY" :> "sk-pkg")
      [] d = <<"work">> -> ("EADLANGCHAIN_AI_OPENAI_API_KEY" :> "sk-work")
                           @@ ("EADLANGCHAIN_AI_ANTHROPIC_API_KEY" :> "sk-work")
      [] d = WorkDir -> ("EADLANGCHAIN_AI_ANTHROPIC_API_KEY" :> "sk-sub")
                        @@ ("EADLANGCHAIN_AI_GEMINI_API_KEY" :> "")

\* (d / ".env").exists()
exists(d) == d \in Dirs /\ dotenv_files[d]

\* the env_file argument: None, the empty string, or the path of d/.env
NoArg == [kind |-> "None", dir |-> Root]

EmptyPath == [kind |-> "empty", dir |-> Root]

PathOf(d) == [kind |-> "path", dir |-> d]

EnvFileArgs == {NoArg, EmptyPath} \cup {PathOf(d) : d \in Dirs}

\* dotenv.load_dotenv(path), override=False: every NAME of the file that the
\* environment does not hold yet is set; a path that is not a file loads nothing
load_dotenv(env, d) ==
    IF exists(d)
    THEN [n \in DOMAIN env \cup DOMAIN DotenvContent(d) |->
             IF n \in DOMAIN env THEN env[n] ELSE DotenvContent(d)[n]]
    ELSE env

\* the first position from i on in the chain whose directory holds a .env, or 0
RECURSIVE first_match(_, _)
first_match(chain, i) ==
    IF i > Len(chain) THEN 0
    ELSE IF exists(chain[i]) THEN i
    ELSE first_match(chain, i + 1)

\* dotenv.find_dotenv() as load_dotenv() calls it: the search starts at the
\* directory of the calling file, and at the working directory when the
\* interpreter is interactive; the result is a directory position or 0
find_dotenv_start == IF interactive THEN cwd ELSE ModuleDir

\* load_dotenv() without a path
load_dotenv_default(env) ==
    LET chain == Chain(find_dotenv_start)
        i == first_match(chain, 1)
    IN  IF i = 0 THEN env ELSE load_dotenv(env, chain[i])

Loaded(env, outcome) == [environ |-> env, outcome |-> outcome]

\* a loader that merges every .env of the chain, the nearest one winning
load_env_config_merge(env_file) ==
    LET RECURSIVE merge(_, _)
        merge(env, i) ==
            IF i > Len(Chain(cwd)) THEN env
            ELSE merge(load_dotenv(env, Chain(cwd)[i]), i + 1)
    IN  IF env_file.kind = "path"
        THEN Loaded(load_dotenv(environ, env_file.dir), Return(None))
        ELSE IF first_match(Chain(cwd), 1) /= 0
             THEN Loaded(merge(environ, 1), Return(None))
             ELSE Loaded(load_dotenv_default(environ), Return(None))

\* a loader that reports a missing .env as an error
load_env_config_strict(env_file) ==
    IF env_file.kind = "path"
    THEN Loaded(load_dotenv(environ, env_file.dir), Return(None))
    ELSE LET chain == Chain(cwd)
             i == first_match(chain, 1)
         IN  IF i /= 0
             THEN Loaded(load_dotenv(environ, chain[i]), Return(None))
             ELSE Loaded(environ, Raise("FileNotFoundError", <<Lit(".env")>>))

\* a loader that searches the working directory's chain even after it has
\* loaded the file it was given
load_env_config_path_then_search(env_file) ==
    LET chain == Chain(cwd)
        i == first_match(chain, 1)
        given == IF env_file.kind = "path" THEN load_dotenv(environ, env_file.dir)
                                           ELSE environ
    IN  IF i /= 0
        THEN Loaded(load_dotenv(given, chain[i]), Return(None))
        ELSE Loaded(load_dotenv_default(given), Return(None))

\* load_env_config(env_file): the new environment and the call's outcome
load_env_config(env_file) ==
    IF env_file.kind = "path"
    THEN Loaded(load_dotenv(environ, env_file.dir), Return(None))
    ELSE LET chain == Chain(cwd)
             i == first_match(chain, 1)
         IN  IF i /= 0
             THEN Loaded(load_dotenv(environ, chain[i]), Return(None))
             ELSE Loaded(load_dotenv_default(environ), Return(None))

----------------------------------------------------------------------------
(* Calls *)

NoProvider == <<>>

\* a call record: stale is set once os.environ or the working directory is
\* modified after the call;
\* changed tells, until then, that the call before it was the same call with
\* another outcome
Call(op, provider_arg, required, env_file, outcome) ==
    [op |-> op, provider |-> provider_arg, required |-> required,
     env_file |-> env_file, outcome |-> outcome, stale |-> FALSE,
     changed |-> /\ last.op = op
                 /\ last.provider = provider_arg
                 /\ last.required = required
                 /\ last.outcome /= outcome]

NoCall ==
    [op |-> "none", provider |-> NoProvider, required |-> FALSE,
     env_file |-> NoArg, outcome |-> Return(None), stale |-> FALSE, changed |-> FALSE]

\* the receivers of a lookup: an EnvConfigProvider() or the module singleton
Receivers == {"instance", "module"}

Call_get_key ==
    \E via \in Receivers, p \in ProviderArgs, required \in BOOLEAN :
        /\ last' = Call("get_key", p, required, NoArg,
                        IF via = "module" THEN get_api_key(p, required)
                                          ELSE get_key(p, required))
        /\ UNCHANGED <<environ, cwd, dotenv_files, interactive>>
        /\ UNCHANGED logvars
        /\ UNCHANGED extvars

Call_get_all_keys ==
    \E via \in Receivers :
        /\ last' = Call("get_all_keys", NoProvider, FALSE, NoArg,
                        IF via = "module" THEN get_all_api_keys ELSE get_all_keys)
        /\ UNCHANGED <<environ, cwd, dotenv_files, interactive>>
        /\ UNCHANGED logvars
        /\ UNCHANGED extvars

Call_validate ==
    \E via \in Receivers, p \in ProviderArgs :
        /\ last' = Call("validate", p, TRUE, NoArg,
                        IF via = "module" THEN validate_provider(p) ELSE validate(p))
        /\ UNCHANGED <<environ, cwd, dotenv_files, interactive>>
        /\ UNCHANGED logvars
        /\ UNCHANGED extvars

\* a get_model_name that writes a default model name back into os.environ
Call_get_model_name_setdefault ==
    \E via \in Receivers, p \in ProviderArgs :
        /\ last' = Call("get_model_name", p, FALSE, NoArg, get_model_name(p))
        /\ environ' = IF lower(p) \in DOMAIN MODEL_MAP
                       THEN environ @@ (MODEL_MAP[lower(p)] :> "gpt-4o")
                       ELSE environ
        /\ UNCHANGED <<cwd, dotenv_files, interactive>>
        /\ UNCHANGED logvars
        /\ UNCHANGED extvars

Call_get_model_name ==
    \E via \in Receivers, p \in ProviderArgs :
        /\ last' = Call("get_model_name", p, FALSE, NoArg,
                        IF via = "module" THEN module_get_model_name(p)
                                          ELSE get_model_name(p))
        /\ UNCHANGED <<environ, cwd, dotenv_files, interactive>>
        /\ UNCHANGED logvars
        /\ UNCHANGED extvars

Call_load_env_config ==
    \E env_file \in EnvFileArgs :
        LET r == load_env_config(env_file) IN
        /\ environ' = r.environ
        /\ last' = Call("load_env_config", NoProvider, FALSE, env_file,
                        r.outcome)
        /\ UNCHANGED <<cwd, dotenv_files, interactive>>
        /\ UNCHANGED logvars
        /\ UNCHANGED extvars

\* os.environ[name] = value (monkeypatch.setenv)
SetEnv ==
    \E name \in EnvVars :
        \E value \in (IF name \in KeyVars THEN KeyValues ELSE ModelValues) :
            /\ os_getenv(name) /= value
            /\ environ' = (name :> value) @@ environ
            /\ last' = [last EXCEPT !.stale = TRUE, !.changed = FALSE]
            /\ UNCHANGED <<cwd, dotenv_files, interactive>>
            /\ UNCHANGED logvars
            /\ UNCHANGED extvars

\* del os.environ[name] (monkeypatch.delenv, clean_env)
UnsetEnv ==
    \E name \in DOMAIN environ :
        /\ environ' = [n \in DOMAIN environ \ {name} |-> environ[n]]
        /\ last' = [last EXCEPT !.stale = TRUE, !.changed = FALSE]
        /\ UNCHANGED <<cwd, dotenv_files, interactive>>
        /\ UNCHANGED logvars
        /\ UNCHANGED extvars

\* os.chdir(d) (monkeypatch.chdir)
Chdir ==
    \E d \in Dirs :
        /\ d /= cwd
        /\ cwd' = d
        /\ last' = [last EXCEPT !.stale = TRUE, !.changed = FALSE]
        /\ UNCHANGED <<environ, dotenv_files, interactive>>
        /\ UNCHANGED logvars
        /\ UNCHANGED extvars

----------------------------------------------------------------------------
(* Paths and strings of the logging layer *)

\* A path string is a tuple of tokens: a name without "." or "/", the token
\* ".", or the separator.  A path is the tuple of its components, each one a
\* tuple of tokens; a record's pathname is [is_path, parts], is_path being
\* FALSE for a value that is no str or os.PathLike.
Sep == "/"

AsPath(d) == [i \in DOMAIN d |-> <<d[i]>>]

File(parts) == [is_path |-> TRUE, parts |-> parts]

NotAPath == [is_path |-> FALSE, parts |-> <<>>]

\* the record.pathname values
Pathnames ==
    { File(<<<<"proj">>, <<"tests">>, <<"unit">>, <<"test_logging", ".", "py">>>>),
      File(<<<<"proj">>, <<"src">>, <<"langchain_llm">>, <<"config", ".", "py">>>>),
      File(<<<<"proj">>, <<"conf", ".", "d">>, <<"run", ".", "pyc">>>>),
      File(<<<<"proj">>, <<".", "py">>>>),
      File(<<<<"work">>, <<"sub">>, <<"script", ".", "py">>>>),
      NotAPath }

\* os.path.splitext(os.path.basename(pathname))[0]
splitext_stem(f) ==
    LET dots == {i \in 2..Len(f) : f[i] = "." /\ \E j \in 1..(i - 1) : f[j] /= "."}
    IN  IF dots = {} THEN f
        ELSE SubSeq(f, 1, (CHOOSE i \in dots : \A k \in dots : k <= i) - 1)

\* logging.LogRecord(..., pathname, ...): the fields format reads and sets
LogRecord(pathname) ==
    [pathname |-> pathname,
     module |-> IF pathname.is_path /\ pathname.parts /= <<>>
                THEN splitext_stem(pathname.parts[Len(pathname.parts)])
                ELSE <<"Unknown module">>,
     message |-> "Test message",
     relative_path |-> <<"unset">>,
     metaclass_name |-> <<"unset">>]

\* root is a prefix of path, component by component
IsRelativeTo(path, root) ==
    /\ Len(root) <= Len(path)
    /\ \A i \in 1..Len(root) : path[i] = root[i]

\* str(path): the components joined by os.sep, "." for the empty path
RECURSIVE join(_, _)
join(path, sep) ==
    IF path = <<>> THEN <<>>
    ELSE IF Len(path) = 1 THEN path[1]
    ELSE path[1] \o <<sep>> \o join(Tail(path), sep)

str_path(path) == IF path = <<>> THEN <<".">> ELSE join(path, Sep)

\* s.replace(os.sep, ".")
replace_sep(s) == [i \in DOMAIN s |-> IF s[i] = Sep THEN "." ELSE s[i]]

\* a label that keeps the source-file suffix
strip_py_never(s) == s

\* s[:-3] if s.endswith(".py") else s
strip_py(s) ==
    IF Len(s) >= 2 /\ s[Len(s) - 1] = "." /\ s[Len(s)] = "py"
    THEN SubSeq(s, 1, Len(s) - 2)
    ELSE s

\* a fallback to the file name instead of the module name
fallback_filename(record) == record.pathname.parts[Len(record.pathname.parts)]

\* the except branch: record.relative_path = record.module
fallback_label(record) == record.module

\* the first try block of format: the label, or the exception it lets through
relative_path_label(record, project_root) ==
    IF ~record.pathname.is_path
    THEN [raised |-> "TypeError", label |-> <<>>]
    ELSE IF IsRelativeTo(record.pathname.parts, AsPath(project_root))
    THEN [raised |-> "",
          label |-> strip_py(replace_sep(str_path(
                        SubSeq(record.pathname.parts, Len(project_root) + 1,
                               Len(record.pathname.parts)))))]
    ELSE [raised |-> "", label |-> fallback_label(record)]

----------------------------------------------------------------------------
(* Call stacks *)

\* a frame's f_locals, as far as format looks: the class of the object bound
\* to self, and the __name__ of the object bound to cls; "" for an unbound
\* name, NoNameAttr for an object without __name__
NoNameAttr == "<no __name__>"

Frame(self_class, cls_name) == [self |-> self_class, cls |-> cls_name]

\* the frames of user code that call a logger or format
UserFrames ==
    { Frame("Service", ""),          \* a method of Service
      Frame("", "Service"),          \* a classmethod of Service
      Frame("", ""),                 \* a plain function
      Frame("", NoNameAttr) }        \* a function with some other object named cls

HandlerClasses == {"StreamHandler", "FileHandler"}

\* the frames between a logger call in user code and CustomFormatter.format,
\* innermost first: Handler.format, emit, Handler.handle, Logger.callHandlers,
\* Logger.handle, Logger._log, Logger.info
logging_frames(handler_class) ==
    <<Frame(handler_class, ""), Frame(handler_class, ""), Frame(handler_class, ""),
      Frame("Logger", ""), Frame("Logger", ""), Frame("Logger", ""),
      Frame("Logger", "")>>

\* the second try block of format: two frames up from format's own frame
metaclass_name_of(stack) ==
    IF Len(stack) >= 2
    THEN LET caller_locals == stack[2] IN
         IF caller_locals.self /= "" THEN caller_locals.self
         ELSE IF caller_locals.cls /= "" /\ caller_locals.cls /= NoNameAttr
              THEN caller_locals.cls
              ELSE ""
    ELSE ""

Formatted(record, outcome) == [record |-> record, outcome |-> outcome]

\* CustomFormatter.format(record) called with the frames of stack above it
format(record, stack) ==
    LET rel == relative_path_label(record, formatter.project_root) IN
    IF rel.raised /= ""
    THEN Formatted(record, Raise(rel.raised, <<>>))
    ELSE LET name == metaclass_name_of(stack)
             enriched == [record EXCEPT
                             !.relative_path = rel.label,
                             !.metaclass_name =
                                 IF name /= "" THEN <<name, ".">> ELSE <<>>]
         IN  Formatted(enriched,
                       Return([relative_path |-> enriched.relative_path,
                               metaclass_name |-> enriched.metaclass_name,
                               message |-> enriched.message]))

----------------------------------------------------------------------------
(* Project root detection *)

MarkerFiles == {"pyproject.toml", ".git"}

NoMarker == ""

\* at most this many directories hold a project marker
MaxMarkers == 2

\* (parent / "pyproject.toml").exists() or (parent / ".git").exists()
has_marker(d) == markers[d] = "pyproject.toml" \/ markers[d] = ".git"

RECURSIVE first_marked(_, _, _)
first_marked(chain, i, current) ==
    IF i > Len(chain) THEN current
    ELSE IF has_marker(chain[i]) THEN chain[i]
    ELSE first_marked(chain, i + 1, current)

\* a search that keeps going and answers the marked directory nearest the root
RECURSIVE last_marked(_, _, _)
last_marked(chain, i, found) ==
    IF i > Len(chain) THEN found
    ELSE last_marked(chain, i + 1, IF has_marker(chain[i]) THEN chain[i] ELSE found)

find_project_root_outermost == last_marked(Chain(cwd), 1, cwd)

\* CustomFormatter._find_project_root()
find_project_root == first_marked(Chain(cwd), 1, cwd)

\* the project_root argument: None or a directory
NoRoot == [given |-> FALSE, dir |-> Root]

RootArg(d) == [given |-> TRUE, dir |-> d]

RootArgs == {NoRoot, RootArg(<<"proj">>), RootArg(WorkDir)}

\* CustomFormatter.__init__: project_root or self._find_project_root()
CustomFormatter(project_root) ==
    [project_root |-> IF project_root.given THEN project_root.dir
                                            ELSE find_project_root]

----------------------------------------------------------------------------
(* Calls into the logging layer *)

NoFormatter == [project_root |-> Root]

NoLogCall == [op |-> "none"]

InitRootLogger == [level |-> 30, handlers |-> <<>>]

\* nothing of the logging layer is in use
LogIdle ==
    /\ markers = [d \in Dirs |-> NoMarker]
    /\ formatter = NoFormatter
    /\ root_logger = InitRootLogger
    /\ log_last = NoLogCall
    /\ log_fs = {}

cfgvars == <<environ, cwd, dotenv_files, interactive, last>>

\* formatter = CustomFormatter(project_root=...)
Call_CustomFormatter ==
    \E arg \in RootArgs :
        /\ formatter' = CustomFormatter(arg)
        /\ log_last' = [op |-> "CustomFormatter", arg |-> arg, cwd |-> cwd]
        /\ UNCHANGED <<markers, root_logger, log_fs>>
        /\ UNCHANGED cfgvars
        /\ UNCHANGED extvars

\* formatter.format(record) called by user code
Call_format ==
    \E pathname \in Pathnames, caller \in UserFrames, outer \in UserFrames :
        LET r == format(LogRecord(pathname), <<caller, outer>>) IN
        /\ log_last' = [op |-> "format", via |-> "direct", origin |-> caller,
                        pathname |-> pathname, record |-> r.record,
                        outcome |-> r.outcome]
        /\ UNCHANGED <<markers, formatter, root_logger, log_fs>>
        /\ UNCHANGED cfgvars
        /\ UNCHANGED extvars

\* logger.info(...) in user code, with a handler that carries the formatter:
\* the record's pathname is the file of the calling frame
Logger_info ==
    \E pathname \in Pathnames \ {NotAPath}, caller \in UserFrames,
       handler_class \in HandlerClasses :
        LET r == format(LogRecord(pathname),
                        logging_frames(handler_class) \o <<caller>>) IN
        /\ log_last' = [op |-> "format", via |-> "logger", origin |-> caller,
                        pathname |-> pathname, record |-> r.record,
                        outcome |-> r.outcome]
        /\ UNCHANGED <<markers, formatter, root_logger, log_fs>>
        /\ UNCHANGED cfgvars
        /\ UNCHANGED extvars

----------------------------------------------------------------------------
(* setup_logging *)

LOG_LEVEL == "EADLANGCHAIN_LOG_LEVEL"

LOG_FILE == "EADLANGCHAIN_LOG_FILE"

LogEnvVars == {LOG_LEVEL, LOG_FILE}

LowerToUpper ==
    [c \in {"a", "b", "d", "e", "f", "g", "i", "n", "o", "r", "s", "u", "v", "w"} |->
        CASE c = "a" -> "A" [] c = "b" -> "B" [] c = "d" -> "D"
          [] c = "e" -> "E" [] c = "f" -> "F" [] c = "g" -> "G"
          [] c = "i" -> "I" [] c = "n" -> "N" [] c = "o" -> "O"
          [] c = "r" -> "R" [] c = "s" -> "S" [] c = "u" -> "U"
          [] c = "v" -> "V" [] c = "w" -> "W"]

\* a level lookup that takes the name as written
upper_identity(s) == s

\* str.upper(), character by character
upper(s) ==
    [i \in DOMAIN s |-> IF s[i] \in DOMAIN LowerToUpper THEN LowerToUpper[s[i]] ELSE s[i]]

\* the upper-case attributes of the logging module that are levels
logging_levels ==
    (<<"C", "R", "I", "T", "I", "C", "A", "L">> :> 50) @@
    (<<"F", "A", "T", "A", "L">> :> 50) @@
    (<<"E", "R", "R", "O", "R">> :> 40) @@
    (<<"W", "A", "R", "N", "I", "N", "G">> :> 30) @@
    (<<"W", "A", "R", "N">> :> 30) @@
    (<<"I", "N", "F", "O">> :> 20) @@
    (<<"D", "E", "B", "U", "G">> :> 10) @@
    (<<"N", "O", "T", "S", "E", "T">> :> 0)

\* getattr(logging, name)
getattr_logging(name) ==
    IF name \in DOMAIN logging_levels
    THEN Return(logging_levels[name])
    ELSE Raise("AttributeError", <<>>)

\* a str | None argument: given = FALSE is None
NoStr == [given |-> FALSE, str |-> <<>>]

Str(s) == [given |-> TRUE, str |-> s]

\* the level names passed to setup_logging or put in EADLANGCHAIN_LOG_LEVEL
LevelArgs ==
    { NoStr,
      Str(<<"D", "E", "B", "U", "G">>),
      Str(<<"e", "r", "r", "o", "r">>),
      Str(<<"v", "e", "r", "b", "o", "s", "e">>) }

\* the values EADLANGCHAIN_LOG_LEVEL is set to
LevelEnvValues ==
    { <<"W", "a", "r", "n", "i", "n", "g">>,
      <<"d", "e", "b", "u", "g">>,
      <<>> }

\* log file paths, by component; <<>> is the empty string
FileArgs ==
    { NoStr,
      Str(<<>>),
      Str(<<"logs", "run", "app.log">>),
      Str(<<"ro", "app.log">>) }

\* the values EADLANGCHAIN_LOG_FILE is set to
FileEnvValues == { <<"app.log">>, <<>> }

DefaultFormat ==
    "%(levelname)-8s %(asctime)s %(relative_path)s.%(metaclass_name)s%(funcName)s.%(lineno)d: %(message)s"

FormatArgs == {None, "%(levelname)s: %(message)s"}

\* the directory /ro cannot be written to
writable(path) == path[1] /= "ro"

\* log_path.parent and its ancestors, as mkdir(parents=True) creates them
parents(path) == {SubSeq(path, 1, n) : n \in 1..(Len(path) - 1)}

Handler(class, target, fmtr) == [class |-> class, target |-> target, formatter |-> fmtr]

Stderr == <<"<stderr>">>

\* setup_logging that keeps the handlers it finds
handlers_after_clear_kept == root_logger.handlers

\* root_logger.handlers.clear()
handlers_after_clear == <<>>

\* the log level when neither the argument nor the variable is given
default_level == <<"I", "N", "F", "O">>

SetupResult(root, fs, outcome) == [root |-> root, fs |-> fs, outcome |-> outcome]

\* a setup_logging that removes the existing handlers before it looks the
\* level up
setup_logging_clear_first(level, log_file, format_string) ==
    LET level_name ==
            IF level.given THEN level.str
            ELSE IF LOG_LEVEL \in DOMAIN environ THEN environ[LOG_LEVEL]
            ELSE default_level
        file ==
            IF log_file.given THEN log_file
            ELSE IF LOG_FILE \in DOMAIN environ THEN Str(environ[LOG_FILE])
            ELSE NoStr
        fmt == IF format_string = None THEN DefaultFormat ELSE format_string
        fmtr == [class |-> "CustomFormatter", fmt |-> fmt,
                 project_root |-> find_project_root]
        attr == getattr_logging(upper(level_name))
    IN  IF attr.kind = "raise"
        THEN SetupResult([root_logger EXCEPT !.handlers = handlers_after_clear],
                         log_fs, attr)
        ELSE LET console == [level |-> attr.value,
                             handlers |-> Append(handlers_after_clear,
                                                 Handler("StreamHandler", Stderr, fmtr))]
             IN  IF ~(file.given /\ file.str /= <<>>)
                 THEN SetupResult(console, log_fs, Return("root"))
                 ELSE IF ~writable(file.str)
                 THEN SetupResult(console, log_fs, Raise("PermissionError", <<>>))
                 ELSE SetupResult(
                          [console EXCEPT !.handlers =
                              Append(@, Handler("FileHandler", file.str, fmtr))],
                          log_fs \cup parents(file.str) \cup {file.str},
                          Return("root"))

\* setup_logging(level, log_file, format_string): the root logger and the
\* files after the call, and the call's outcome
setup_logging(level, log_file, format_string) ==
    LET level_name ==
            IF level.given THEN level.str
            ELSE IF LOG_LEVEL \in DOMAIN environ THEN environ[LOG_LEVEL]
            ELSE default_level
        file ==
            IF log_file.given THEN log_file
            ELSE IF LOG_FILE \in DOMAIN environ THEN Str(environ[LOG_FILE])
            ELSE NoStr
        fmt == IF format_string = None THEN DefaultFormat ELSE format_string
        fmtr == [class |-> "CustomFormatter", fmt |-> fmt,
                 project_root |-> find_project_root]
        attr == getattr_logging(upper(level_name))
    IN  IF attr.kind = "raise"
        THEN SetupResult(root_logger, log_fs, attr)
        ELSE LET console == [level |-> attr.value,
                             handlers |-> Append(handlers_after_clear,
                                                 Handler("StreamHandler", Stderr, fmtr))]
             IN  IF ~(file.given /\ file.str /= <<>>)
                 THEN SetupResult(console, log_fs, Return("root"))
                 ELSE IF ~writable(file.str)
                 THEN SetupResult(console, log_fs, Raise("PermissionError", <<>>))
                 ELSE SetupResult(
                          [console EXCEPT !.handlers =
                              Append(@, Handler("FileHandler", file.str, fmtr))],
                          log_fs \cup parents(file.str) \cup {file.str},
                          Return("root"))

Call_setup_logging ==
    \E level \in LevelArgs, log_file \in FileArgs, format_string \in FormatArgs :
        LET r == setup_logging(level, log_file, format_string) IN
        /\ root_logger' = r.root
        /\ log_fs' = r.fs
        /\ log_last' = [op |-> "setup_logging", level |-> level,
                        log_file |-> log_file,
                        replaced |-> Len(root_logger.handlers),
                        outcome |-> r.outcome]
        /\ UNCHANGED <<markers, formatter>>
        /\ UNCHANGED cfgvars
        /\ UNCHANGED extvars

\* os.environ[name] = value, for the logging variables
SetLogEnv ==
    \E name \in LogEnvVars :
        \E value \in (IF name = LOG_LEVEL THEN LevelEnvValues ELSE FileEnvValues) :
            /\ ~(name \in DOMAIN environ /\ environ[name] = value)
            /\ environ' = (name :> value) @@ environ
            /\ log_last' = NoLogCall
            /\ UNCHANGED <<cwd, dotenv_files, interactive, last>>
            /\ UNCHANGED <<markers, formatter, root_logger, log_fs>>
            /\ UNCHANGED extvars

\* del os.environ[name], for the logging variables
UnsetLogEnv ==
    \E name \in LogEnvVars \cap DOMAIN environ :
        /\ environ' = [n \in DOMAIN environ \ {name} |-> environ[n]]
        /\ log_last' = NoLogCall
        /\ UNCHANGED <<cwd, dotenv_files, interactive, last>>
        /\ UNCHANGED <<markers, formatter, root_logger, log_fs>>
        /\ UNCHANGED extvars

\* at most this many handlers are installed by other code
MaxForeignHandlers == 1

ForeignHandler ==
    Handler("NullHandler", <<>>, [class |-> "None", fmt |-> None, project_root |-> Root])

\* logging.getLogger().addHandler(h) in code outside this package
AddHandler ==
    /\ Cardinality({i \in DOMAIN root_logger.handlers :
                       root_logger.handlers[i] = ForeignHandler}) < MaxForeignHandlers
    /\ root_logger' = [root_logger EXCEPT !.handlers = Append(@, ForeignHandler)]
    /\ log_last' = NoLogCall
    /\ UNCHANGED <<markers, formatter, log_fs>>
    /\ UNCHANGED cfgvars
    /\ UNCHANGED extvars

\* the severities of the records logged
LevelNos == {10, 30, 40}

\* logging.lastResort: with no handler at all, WARNING and above go to stderr
lastResort_level == 30

\* a logger that lets a record through only above its level
emit_targets_above(levelno) ==
    IF levelno <= root_logger.level THEN {}
    ELSE IF root_logger.handlers = <<>>
    THEN IF levelno >= lastResort_level THEN {Stderr} ELSE {}
    ELSE {root_logger.handlers[i].target : i \in DOMAIN root_logger.handlers}

\* Logger.log(levelno, msg) on a logger that inherits the root's level:
\* isEnabledFor, then callHandlers; the targets the record is written to
emit_targets(levelno) ==
    IF levelno < root_logger.level THEN {}
    ELSE IF root_logger.handlers = <<>>
    THEN IF levelno >= lastResort_level THEN {Stderr} ELSE {}
    ELSE {root_logger.handlers[i].target : i \in DOMAIN root_logger.handlers}

\* get_logger(__name__).debug / .warning / .error
Logger_log ==
    \E levelno \in LevelNos :
        /\ log_last' = [op |-> "log", levelno |-> levelno,
                        written |-> emit_targets(levelno),
                        setup |-> IF log_last.op = "log" THEN log_last.setup
                                                        ELSE log_last]
        /\ UNCHANGED <<markers, formatter, root_logger, log_fs>>
        /\ UNCHANGED cfgvars
        /\ UNCHANGED extvars

----------------------------------------------------------------------------
(* scripts/sync_notebooks.py: sync_file *)

\* the example files, in the order sorted() gives them
ExampleOrder == <<"01_basic", "02_streaming">>

ExampleFiles == Range(ExampleOrder)

\* the clock does not run past this
MaxClock == 2

Times == 0..MaxClock

NotebookStates == {"absent", "stale", "converted", "enhanced", "enhanced (no exercises)"}

\* an example: its .py file and the .ipynb next to it
Example(py_exists, py_mtime, nb_exists, nb_mtime, nb_state) ==
    [py_exists |-> py_exists, py_mtime |-> py_mtime,
     nb_exists |-> nb_exists, nb_mtime |-> nb_mtime, nb_state |-> nb_state]

NoExample == Example(FALSE, 0, FALSE, 0, "absent")

SyncResult(ret, runs, msg, file) == [ret |-> ret, runs |-> runs, msg |-> msg, file |-> file]

\* an up-to-date test that wants the notebook strictly newer
up_to_date_newer_only(file, force) ==
    file.nb_exists /\ ~force /\ file.nb_mtime > file.py_mtime

\* ipynb_file.exists() and not force, and the notebook not older than the .py
up_to_date(file, force) ==
    file.nb_exists /\ ~force /\ file.nb_mtime >= file.py_mtime

\* a sync_file without its second check_only test
missing_check_dropped(check_only) == FALSE

\* if check_only: ... "(missing)"
missing_check(check_only) == check_only

\* enhance_notebook(ipynb_file, py_file, add_exercises) rewrites the notebook
\* when it succeeds and leaves it as converted when it fails
enhanced(file, add_exercises, enh_ok) ==
    IF enh_ok
    THEN [file EXCEPT !.nb_state = IF add_exercises THEN "enhanced"
                                                    ELSE "enhanced (no exercises)"]
    ELSE file

\* sync_file(py_file, check_only, enhance, add_exercises, force); conv_ok and
\* enh_ok tell whether jupytext and enhance_notebook succeed on this file
sync_file(f, check_only, enhance, add_exercises, force, conv_ok, enh_ok) ==
    LET file == nb_files[f] IN
    IF up_to_date(file, force)
    THEN SyncResult(TRUE, 0, "[OK] (up to date)", file)
    ELSE IF file.nb_exists /\ ~force /\ check_only
    THEN SyncResult(FALSE, 0, "[SKIP] (out of sync)", file)
    ELSE IF missing_check(check_only)
    THEN SyncResult(FALSE, 0, "[SKIP] (missing)", file)
    ELSE IF ~conv_ok
    THEN SyncResult(FALSE, 1, "[FAIL] (FAILED)", file)
    ELSE LET converted == [file EXCEPT !.nb_exists = TRUE, !.nb_mtime = now,
                                       !.nb_state = "converted"]
         IN  IF enhance
             THEN IF enh_ok
                  THEN SyncResult(TRUE, 1,
                                  IF add_exercises THEN "[OK] (enhanced)"
                                                   ELSE "[OK] (enhanced (no exercises))",
                                  enhanced(converted, add_exercises, enh_ok))
                  ELSE SyncResult(TRUE, 1,
                                  "[OK] (converted, enhancement partially failed)",
                                  enhanced(converted, add_exercises, enh_ok))
             ELSE SyncResult(TRUE, 1, "[OK] (converted)", converted)

NoSyncCall == [op |-> "none"]

Call_sync_file ==
    \E f \in {x \in ExampleFiles : nb_files[x].py_exists},
       check_only \in BOOLEAN, enhance \in BOOLEAN, add_exercises \in BOOLEAN,
       force \in BOOLEAN, conv_ok \in BOOLEAN, enh_ok \in BOOLEAN :
        LET r == sync_file(f, check_only, enhance, add_exercises, force, conv_ok, enh_ok) IN
        /\ nb_files' = [nb_files EXCEPT ![f] = r.file]
        /\ sync_last' = [op |-> "sync_file", file |-> f, check_only |-> check_only,
                         enhance |-> enhance, add_exercises |-> add_exercises,
                         force |-> force, conv_ok |-> conv_ok, enh_ok |-> enh_ok,
                         ret |-> r.ret, runs |-> r.runs, msg |-> r.msg,
                         was |-> nb_files[f]]
        /\ UNCHANGED <<now, sync_env>>
        /\ UNCHANGED cfgvars
        /\ UNCHANGED logvars
        /\ UNCHANGED demovars

\* time passes
Tick ==
    /\ now < MaxClock
    /\ now' = now + 1
    /\ UNCHANGED <<nb_files, sync_env, sync_last>>
    /\ UNCHANGED cfgvars
    /\ UNCHANGED logvars
    /\ UNCHANGED demovars

\* an example's .py file is edited
WritePy ==
    \E f \in ExampleFiles :
        /\ nb_files[f].py_exists
        /\ nb_files[f].py_mtime /= now
        /\ nb_files' = [nb_files EXCEPT ![f].py_mtime = now]
        /\ sync_last' = NoSyncCall
        /\ UNCHANGED <<now, sync_env>>
        /\ UNCHANGED cfgvars
        /\ UNCHANGED logvars
        /\ UNCHANGED demovars

\* a notebook is deleted
RemoveNotebook ==
    \E f \in ExampleFiles :
        /\ nb_files[f].nb_exists
        /\ nb_files' = [nb_files EXCEPT ![f].nb_exists = FALSE, ![f].nb_mtime = 0,
                                        ![f].nb_state = "absent"]
        /\ sync_last' = NoSyncCall
        /\ UNCHANGED <<now, sync_env>>
        /\ UNCHANGED cfgvars
        /\ UNCHANGED logvars
        /\ UNCHANGED demovars

----------------------------------------------------------------------------
(* scripts/sync_notebooks.py: main *)

\* subprocess.run(["jupytext", "--version"]) succeeds
check_jupytext_installed == sync_env.jupytext

\* sorted(examples_dir.glob("[0-9][0-9]_*.py"))
py_files == SelectSeq(ExampleOrder, LAMBDA f : nb_files[f].py_exists)

\* a summary that reports success whatever the conversions did
exit_status_sync_always_ok(check, results) ==
    IF check
    THEN IF \A i \in DOMAIN results : results[i].ret THEN 0 ELSE 1
    ELSE 0

\* the summary: all(results) in check mode, failed == 0 otherwise
exit_status(check, results) ==
    IF check
    THEN IF \A i \in DOMAIN results : results[i].ret THEN 0 ELSE 1
    ELSE IF Cardinality({i \in DOMAIN results : ~results[i].ret}) = 0 THEN 0 ELSE 1

MainResult(exit, stage, results) == [exit |-> exit, stage |-> stage, results |-> results]

\* main() under the command line --check / --simple / --no-exercises /
\* --force; conv_ok and enh_ok tell, per file, whether jupytext and
\* enhance_notebook succeed
main(check, simple, no_exercises, force, conv_ok, enh_ok) ==
    IF ~check_jupytext_installed
    THEN MainResult(1, "jupytext is not installed", <<>>)
    ELSE IF ~sync_env.examples_dir
    THEN MainResult(1, "Examples directory not found", <<>>)
    ELSE IF py_files = <<>>
    THEN MainResult(0, "No example files to sync", <<>>)
    ELSE LET results ==
                 [i \in DOMAIN py_files |->
                     sync_file(py_files[i], check, ~simple, ~no_exercises, force,
                               conv_ok[py_files[i]], enh_ok[py_files[i]])]
         IN  MainResult(exit_status(check, results), "synced", results)

Call_main ==
    \E check \in BOOLEAN, simple \in BOOLEAN, no_exercises \in BOOLEAN,
       force \in BOOLEAN, conv_ok \in [ExampleFiles -> BOOLEAN],
       enh_ok \in {[f \in ExampleFiles |-> b] : b \in BOOLEAN} :
        LET r == main(check, simple, no_exercises, force, conv_ok, enh_ok)
            found == py_files
        IN
        /\ nb_files' = [f \in ExampleFiles |->
                           IF \E i \in DOMAIN r.results : found[i] = f
                           THEN r.results[CHOOSE i \in DOMAIN r.results : found[i] = f].file
                           ELSE nb_files[f]]
        /\ sync_last' = [op |-> "main", check |-> check, simple |-> simple,
                         no_exercises |-> no_exercises, force |-> force,
                         exit |-> r.exit, stage |-> r.stage,
                         calls |-> [i \in DOMAIN r.results |->
                                       [file |-> found[i], ret |-> r.results[i].ret,
                                        runs |-> r.results[i].runs]]]
        /\ UNCHANGED <<now, sync_env>>
        /\ UNCHANGED cfgvars
        /\ UNCHANGED logvars
        /\ UNCHANGED demovars

----------------------------------------------------------------------------
(* examples/04_advanced.py: TokenCounterCallback *)

\* no more on_llm_end events than this reach one callback
MaxEvents == 2

UsageFields == {"prompt_tokens", "completion_tokens", "total_tokens"}

\* token counts a provider may report
TokenValues == {1, 2}

ModelNames == {"gpt-5-nano"}

\* the token_usage dictionaries: any of the fields may be missing
TokenUsages == UNION {[D -> TokenValues] : D \in SUBSET UsageFields}

EmptyUsage == [k \in {} |-> 0]

\* response.llm_output: None, or a dictionary that may hold "token_usage"
\* and "model_name"
NoOutput == [is_none |-> TRUE, keys |-> {}, token_usage |-> EmptyUsage, model_name |-> ""]

LlmOutput(has_usage, usage, has_model, model) ==
    [is_none |-> FALSE,
     keys |-> (IF has_usage THEN {"token_usage"} ELSE {})
                 \cup (IF has_model THEN {"model_name"} ELSE {}),
     token_usage |-> IF has_usage THEN usage ELSE EmptyUsage,
     model_name |-> IF has_model THEN model ELSE ""]

LlmOutputs ==
    {NoOutput}
        \cup {LlmOutput(has_usage, usage, has_model, model) :
                 has_usage \in BOOLEAN, usage \in TokenUsages,
                 has_model \in BOOLEAN, model \in ModelNames}

\* self.pricing, in units of 0.00001 USD per token
pricing ==
    [m \in {"gpt-5-nano", "claude-3-haiku-20240307", "gemini-2.0-flash-lite"} |->
        CASE m = "gpt-5-nano" -> [prompt |-> 5, completion |-> 40]
          [] m = "claude-3-haiku-20240307" -> [prompt |-> 25, completion |-> 125]
          [] m = "gemini-2.0-flash-lite" -> [prompt |-> 7, completion |-> 30]]

\* TokenCounterCallback(): all counters at zero
TokenCounterCallback ==
    [total_tokens |-> 0, prompt_tokens |-> 0, completion_tokens |-> 0, total_cost |-> 0]

\* dict.get(key, default)
dict_get(d, key, default) == IF key \in DOMAIN d THEN d[key] ELSE default

\* bool(response.llm_output): None and the empty dictionary are false
Truthy_llm_output(llm_output) == ~llm_output.is_none /\ llm_output.keys /= {}

\* an on_llm_end that derives the total from the two parts
on_llm_end_total_from_parts(self, llm_output) ==
    IF Truthy_llm_output(llm_output) /\ "token_usage" \in llm_output.keys
    THEN LET usage == llm_output.token_usage
             prompt_tokens == dict_get(usage, "prompt_tokens", 0)
             completion_tokens == dict_get(usage, "completion_tokens", 0)
             model == IF "model_name" \in llm_output.keys THEN llm_output.model_name ELSE ""
             cost == IF model \in DOMAIN pricing
                     THEN prompt_tokens * pricing[model].prompt
                              + completion_tokens * pricing[model].completion
                     ELSE 0
         IN  [prompt_tokens |-> self.prompt_tokens + prompt_tokens,
              completion_tokens |-> self.completion_tokens + completion_tokens,
              total_tokens |-> self.total_tokens + prompt_tokens + completion_tokens,
              total_cost |-> self.total_cost + cost]
    ELSE self

\* on_llm_end(self, response): the callback after the event
on_llm_end(self, llm_output) ==
    IF Truthy_llm_output(llm_output) /\ "token_usage" \in llm_output.keys
    THEN LET usage == llm_output.token_usage
             prompt_tokens == dict_get(usage, "prompt_tokens", 0)
             completion_tokens == dict_get(usage, "completion_tokens", 0)
             total_tokens == dict_get(usage, "total_tokens", 0)
             model == IF "model_name" \in llm_output.keys THEN llm_output.model_name ELSE ""
             cost == IF model \in DOMAIN pricing
                     THEN prompt_tokens * pricing[model].prompt
                              + completion_tokens * pricing[model].completion
                     ELSE 0
         IN  [prompt_tokens |-> self.prompt_tokens + prompt_tokens,
              completion_tokens |-> self.completion_tokens + completion_tokens,
              total_tokens |-> self.total_tokens + total_tokens,
              total_cost |-> self.total_cost + cost]
    ELSE self

\* get_summary(self); the cost stays in units of 0.00001 USD, which
\* round(..., 6) keeps
get_summary(self) ==
    [op |-> "get_summary",
     total_tokens |-> self.total_tokens,
     prompt_tokens |-> self.prompt_tokens,
     completion_tokens |-> self.completion_tokens,
     estimated_cost_usd |-> self.total_cost]

NoSummary == [op |-> "none"]

Call_on_llm_end ==
    \E llm_output \in LlmOutputs :
        /\ Len(llm_events) < MaxEvents
        /\ callback' = on_llm_end(callback, llm_output)
        /\ llm_events' = Append(llm_events, llm_output)
        /\ summary' = NoSummary
        /\ UNCHANGED <<example_run, enhance_last>>
        /\ UNCHANGED cfgvars
        /\ UNCHANGED logvars
        /\ UNCHANGED syncvars

Call_get_summary ==
    /\ summary' = get_summary(callback)
    /\ UNCHANGED <<callback, llm_events, example_run, enhance_last>>
    /\ UNCHANGED cfgvars
    /\ UNCHANGED logvars
    /\ UNCHANGED syncvars

----------------------------------------------------------------------------
(* examples/01_basic.py, examples/04_advanced.py: main *)

Scripts == {"01_basic", "04_advanced"}

\* the example functions main() calls, in the order of its try blocks, each
\* with the name its error report uses
examples_of(script) ==
    IF script = "01_basic"
    THEN <<[fn |-> "basic_openai_example", label |-> "OpenAI"],
           [fn |-> "basic_anthropic_example", label |-> "Anthropic"],
           [fn |-> "basic_gemini_example", label |-> "Gemini"]>>
    ELSE IF script = "04_advanced"
    THEN <<[fn |-> "token_tracking_example", label |-> "Token tracking"],
           [fn |-> "metadata_inspection_example", label |-> "Metadata inspection"],
           [fn |-> "retry_and_error_handling_example", label |-> "Retry"],
           [fn |-> "batch_processing_example", label |-> "Batch processing"],
           [fn |-> "advanced_parameters_example", label |-> "Advanced parameters"]>>
    ELSE <<>>

title_of(script) ==
    IF script = "01_basic" THEN "Example 01: Basic LLM Usage"
                           ELSE "Example 04: Advanced Features"

banner_of(script) ==
    IF script = "01_basic" THEN "[SUCCESS] Basic examples complete!"
                           ELSE "[SUCCESS] Advanced examples complete!"

\* what a call of an example function does: it returns, or it raises an
\* exception of one of these classes (all derive from Exception)
Returns == "returns"

Outcomes == {Returns, "ValueError", "Exception"}

\* what main() leaves behind: the calls it made, the records it logged and
\* the lines it printed
Called(fn, outcome) == [kind |-> "call", text |-> fn, label |-> "", type |-> outcome]

Logged(script, label, type) ==
    [kind |-> "logger.error", text |-> "example failed", label |-> label,
     type |-> IF script = "01_basic" THEN "" ELSE type]

Printed(text) == [kind |-> "print", text |-> text, label |-> "", type |-> ""]

PrintedError(label, type) ==
    [kind |-> "print", text |-> "[ERROR]", label |-> label, type |-> type]

\* a main() that gives up on the remaining examples once one has failed
after_except_skips_rest(pc, n) == n + 1

\* after an except block main() goes on with the next try block
after_except(pc, n) == pc + 1

NoRun == [script |-> "none", pc |-> 0, trace |-> <<>>]

\* main() is entered and prints its heading
main_heading ==
    /\ example_run.script \in Scripts
    /\ example_run.pc = 0
    /\ example_run' = [example_run EXCEPT
                          !.pc = 1,
                          !.trace = <<Printed(title_of(example_run.script))>>]
    /\ UNCHANGED <<callback, llm_events, summary, enhance_last>>
    /\ UNCHANGED cfgvars
    /\ UNCHANGED logvars
    /\ UNCHANGED syncvars

\* one try block: the example function is called; if it raises, the error
\* is logged and printed
main_try ==
    \E outcome \in Outcomes :
        LET script == example_run.script
            n == Len(examples_of(script))
            pc == example_run.pc
        IN
        /\ script \in Scripts
        /\ pc \in 1..n
        /\ LET ex == examples_of(script)[pc] IN
           example_run' =
               IF outcome = Returns
               THEN [example_run EXCEPT
                        !.pc = pc + 1,
                        !.trace = Append(@, Called(ex.fn, outcome))]
               ELSE [example_run EXCEPT
                        !.pc = after_except(pc, n),
                        !.trace = @ \o <<Called(ex.fn, outcome),
                                         Logged(script, ex.label, outcome),
                                         PrintedError(ex.label, outcome)>>]
        /\ UNCHANGED <<callback, llm_events, summary, enhance_last>>
        /\ UNCHANGED cfgvars
        /\ UNCHANGED logvars
        /\ UNCHANGED syncvars

\* after the last try block main() prints its banner and returns
main_banner ==
    LET script == example_run.script
        n == Len(examples_of(script))
    IN
    /\ script \in Scripts
    /\ example_run.pc = n + 1
    /\ example_run' = [example_run EXCEPT
                          !.pc = n + 2,
                          !.trace = Append(@, Printed(banner_of(script)))]
    /\ UNCHANGED <<callback, llm_events, summary, enhance_last>>
    /\ UNCHANGED cfgvars
    /\ UNCHANGED logvars
    /\ UNCHANGED syncvars

----------------------------------------------------------------------------
(* scripts/sync_notebooks.py: enhance_notebook *)

\* a notebook handed to enhance_notebook has at most this many cells
MaxCells == 2

\* function names, character by character
fn_run == <<"r", "u", "n">>

fn_ask == <<"a", "s", "k">>

fn_main == <<"m", "a", "i", "n">>

fn_get_x == <<"g", "e", "t", "_", "x">>

FuncNames == {fn_run, fn_ask, fn_main, fn_get_x}

\* patterns.functions: the names of the FunctionDef nodes of the .py file,
\* in the order the visitor meets them
AnalyzedFunctions ==
    {<<>>, <<fn_run, fn_ask, fn_main>>, <<fn_ask, fn_run>>, <<fn_get_x, fn_run, fn_run>>}

\* str.startswith
startswith(str, prefix) ==
    Len(str) >= Len(prefix) /\ SubSeq(str, 1, Len(prefix)) = prefix

skip_patterns ==
    <<fn_main,
      <<"_", "_", "i", "n", "i", "t", "_", "_">>,
      <<"o", "n", "_">>,
      <<"g", "e", "t", "_">>,
      <<"h", "a", "v", "e", "_">>>>

\* should_add_exercise(func_name, func_info)
should_add_exercise(func_name) ==
    ~\E i \in DOMAIN skip_patterns :
        func_name = skip_patterns[i] \/ startswith(func_name, skip_patterns[i])

\* a cell's source: its text; for a code cell the names n whose "def n("
\* the text holds; whether format_docstring_as_markdown has rewritten it;
\* for an exercise the function it is about
Source(text, defs, formatted, about) ==
    [text |-> text, defs |-> defs, formatted |-> formatted, about |-> about]

\* a notebook cell; the cells of the input carry their position as id, the
\* cells enhance_notebook builds carry none (0)
Cell(id, cell_type, source) == [id |-> id, cell_type |-> cell_type, source |-> source]

MarkdownTexts == {"Notes", "Shows:", "Demonstrates"}

\* str.lower() on the texts above
text_lower(text) ==
    CASE text = "Notes" -> "notes"
      [] text = "Shows:" -> "shows:"
      [] text = "Demonstrates" -> "demonstrates"
      [] OTHER -> text

\* what a cell of a converted notebook may be
CellBodies ==
    {[cell_type |-> "markdown", source |-> Source(t, {}, FALSE, <<>>)] : t \in MarkdownTexts}
        \cup {[cell_type |-> "raw", source |-> Source("raw", {}, FALSE, <<>>)]}
        \cup {[cell_type |-> "code", source |-> Source("code", defs, FALSE, <<>>)] :
                 defs \in SUBSET FuncNames}

Notebooks ==
    UNION {{[i \in 1..n |-> Cell(i, bodies[i].cell_type, bodies[i].source)] :
               bodies \in [1..n -> CellBodies]} : n \in 0..MaxCells}

\* "Shows:" in source or "demonstrates" in source.lower()
is_docstring(source) ==
    source.text = "Shows:" \/ text_lower(source.text) = "demonstrates"

\* cell["source"] = format_docstring_as_markdown(source).split("\n")
reformatted(cell) == [cell EXCEPT !.source.formatted = TRUE]

\* the markdown cell built from generate_exercise_for_function
exercise_cell(func_name) == Cell(0, "markdown", Source("Try This", {}, FALSE, func_name))

\* the code cell holding only "# Your experiments here"
experiment_cell == Cell(0, "code", Source("# Your experiments here", {}, FALSE, <<>>))

\* an enhance_notebook that forgets which functions have their exercise
exercises_added_add_forgets(exercises_added, func_name) == exercises_added

\* exercises_added.add(func["name"])
exercises_added_add(exercises_added, func_name) == exercises_added \cup {func_name}

RECURSIVE enhanced_cells(_, _, _, _)
\* the loop over notebook["cells"], from the cells still to visit
enhanced_cells(cells, functions, add_exercises, exercises_added) ==
    IF cells = <<>>
    THEN <<>>
    ELSE LET cell == Head(cells)
             rest == Tail(cells)
         IN
         IF cell.cell_type = "markdown"
         THEN <<IF is_docstring(cell.source) THEN reformatted(cell) ELSE cell>>
                  \o enhanced_cells(rest, functions, add_exercises, exercises_added)
         ELSE IF cell.cell_type = "code" /\ add_exercises
         THEN LET matching ==
                      {i \in DOMAIN functions :
                          /\ functions[i] \in cell.source.defs
                          /\ should_add_exercise(functions[i])
                          /\ functions[i] \notin exercises_added}
              IN  IF matching = {}
                  THEN <<cell>> \o enhanced_cells(rest, functions, add_exercises,
                                                  exercises_added)
                  ELSE LET first == CHOOSE i \in matching : \A j \in matching : i <= j
                           func == functions[first]
                       IN  <<cell, exercise_cell(func), experiment_cell>>
                               \o enhanced_cells(rest, functions, add_exercises,
                                                 exercises_added_add(exercises_added, func))
         ELSE <<cell>> \o enhanced_cells(rest, functions, add_exercises, exercises_added)

\* enhance_notebook(ipynb_file, py_file, add_exercises): what it returns and
\* the cells the notebook file holds afterwards; raised tells whether
\* something in the try block raised, in which case nothing is written
enhance_notebook(cells, functions, add_exercises, raised) ==
    IF raised
    THEN [ret |-> FALSE, cells |-> cells]
    ELSE [ret |-> TRUE, cells |-> enhanced_cells(cells, functions, add_exercises, {})]

NoEnhanceCall ==
    [op |-> "none", cells |-> <<>>, functions |-> <<>>, add_exercises |-> FALSE,
     ret |-> FALSE, output |-> <<>>]

\* enhance_notebook runs on the converted notebook and the analysed .py file
Call_enhance_notebook ==
    \E add_exercises \in BOOLEAN, raised \in BOOLEAN :
        LET r == enhance_notebook(enhance_last.cells, enhance_last.functions,
                                  add_exercises, raised)
        IN
        /\ enhance_last' = [enhance_last EXCEPT
                               !.op = "enhance_notebook",
                               !.add_exercises = add_exercises,
                               !.ret = r.ret,
                               !.output = r.cells]
        /\ UNCHANGED <<callback, llm_events, summary, example_run>>
        /\ UNCHANGED cfgvars
        /\ UNCHANGED logvars
        /\ UNCHANGED syncvars

----------------------------------------------------------------------------
(* States at rest *)

\* the notebook synchroniser at rest
SyncIdle ==
    /\ now = 0
    /\ nb_files = [f \in ExampleFiles |-> NoExample]
    /\ sync_env = [jupytext |-> TRUE, examples_dir |-> TRUE]
    /\ sync_last = NoSyncCall

\* a fresh callback, no example running, no notebook enhanced
DemoIdle ==
    /\ callback = TokenCounterCallback
    /\ llm_events = <<>>
    /\ summary = NoSummary
    /\ example_run = NoRun
    /\ enhance_last = NoEnhanceCall

\* nothing outside the package is in use
ExtIdle ==
    /\ SyncIdle
    /\ DemoIdle

\* everything of the package at rest
PackageIdle ==
    /\ environ = [n \in {} |-> None]
    /\ cwd = Root
    /\ dotenv_files = [d \in Dirs |-> FALSE]
    /\ interactive = FALSE
    /\ last = NoCall
    /\ LogIdle

----------------------------------------------------------------------------
(* Specifications *)

NoEnviron == [n \in {} |-> None]

\* the environments a process starts with: clean_env, mock_env_vars, and an
\* API key that is set but empty
InitEnvirons ==
    { NoEnviron,
      [n \in KeyVars |-> "sk-1"],
      [n \in {"EADLANGCHAIN_AI_OPENAI_API_KEY"} |-> ""] }

\* the lookups under a changing environment; no .env file anywhere
Init ==
    /\ environ \in InitEnvirons
    /\ cwd = Root
    /\ dotenv_files = [d \in Dirs |-> FALSE]
    /\ interactive = FALSE
    /\ last = NoCall
    /\ LogIdle
    /\ ExtIdle

Next ==
    \/ SetEnv
    \/ UnsetEnv
    \/ Call_get_key
    \/ Call_get_all_keys
    \/ Call_validate
    \/ Call_get_model_name

Spec == Init /\ [][Next]_vars

\* the loader over the placements of at most MaxEnvFiles .env files
InitLoad ==
    /\ environ \in InitEnvirons
    /\ cwd \in Dirs
    /\ dotenv_files \in {f \in [Dirs -> BOOLEAN] :
                            Cardinality({d \in Dirs : f[d]}) <= MaxEnvFiles}
    /\ interactive \in BOOLEAN
    /\ last = NoCall
    /\ LogIdle
    /\ ExtIdle

NextLoad ==
    \/ Call_load_env_config
    \/ Chdir

SpecLoad == InitLoad /\ [][NextLoad]_vars

\* the lookups together with the loader, over the placements of at most one
\* .env file
InitFrame ==
    /\ environ \in InitEnvirons
    /\ cwd \in {WorkDir, <<"proj">>}
    /\ dotenv_files \in {f \in [Dirs -> BOOLEAN] :
                            Cardinality({d \in Dirs : f[d]}) <= 1}
    /\ interactive \in BOOLEAN
    /\ last = NoCall
    /\ LogIdle
    /\ ExtIdle

NextFrame ==
    \/ Call_get_key
    \/ Call_get_all_keys
    \/ Call_validate
    \/ Call_get_model_name
    \/ Call_load_env_config

SpecFrame == InitFrame /\ [][NextFrame]_vars

\* one formatter with any project root, formatting records
InitFormat ==
    /\ environ = NoEnviron
    /\ cwd = Root
    /\ dotenv_files = [d \in Dirs |-> FALSE]
    /\ interactive = FALSE
    /\ last = NoCall
    /\ markers = [d \in Dirs |-> NoMarker]
    /\ formatter \in {[project_root |-> d] : d \in Dirs}
    /\ root_logger = InitRootLogger
    /\ log_last = NoLogCall
    /\ log_fs = {}
    /\ ExtIdle

NextFormat ==
    \/ Call_format
    \/ Logger_info

SpecFormat == InitFormat /\ [][NextFormat]_vars

\* formatters constructed over the placements of at most MaxMarkers markers
InitRoot ==
    /\ environ = NoEnviron
    /\ cwd \in Dirs
    /\ dotenv_files = [d \in Dirs |-> FALSE]
    /\ interactive = FALSE
    /\ last = NoCall
    /\ markers \in {f \in [Dirs -> MarkerFiles \cup {NoMarker}] :
                       Cardinality({d \in Dirs : f[d] /= NoMarker}) <= MaxMarkers}
    /\ formatter = NoFormatter
    /\ root_logger = InitRootLogger
    /\ log_last = NoLogCall
    /\ log_fs = {}
    /\ ExtIdle

NextRoot ==
    \/ Call_CustomFormatter
    \/ Chdir

SpecRoot == InitRoot /\ [][NextRoot]_vars

\* the root logger configured and reconfigured in a project whose root
\* holds pyproject.toml
InitLogging ==
    /\ environ = NoEnviron
    /\ cwd = ModuleDir
    /\ dotenv_files = [d \in Dirs |-> FALSE]
    /\ interactive = FALSE
    /\ last = NoCall
    /\ markers = [d \in Dirs |-> IF d = <<"proj">> THEN "pyproject.toml" ELSE NoMarker]
    /\ formatter = NoFormatter
    /\ root_logger = InitRootLogger
    /\ log_last = NoLogCall
    /\ log_fs = {}
    /\ ExtIdle

NextLogging ==
    \/ Call_setup_logging
    \/ SetLogEnv
    \/ UnsetLogEnv
    \/ AddHandler

SpecLogging == InitLogging /\ [][NextLogging]_vars

\* records logged through the root logger as setup_logging configured it
InitEmit ==
    /\ environ \in { NoEnviron,
                     (LOG_LEVEL :> <<"W", "a", "r", "n", "i", "n", "g">>),
                     (LOG_FILE :> <<"app.log">>) }
    /\ cwd = ModuleDir
    /\ dotenv_files = [d \in Dirs |-> FALSE]
    /\ interactive = FALSE
    /\ last = NoCall
    /\ markers = [d \in Dirs |-> IF d = <<"proj">> THEN "pyproject.toml" ELSE NoMarker]
    /\ formatter = NoFormatter
    /\ root_logger = InitRootLogger
    /\ log_last = NoLogCall
    /\ log_fs = {}
    /\ ExtIdle

NextEmit ==
    \/ Call_setup_logging
    \/ Logger_log

SpecEmit == InitEmit /\ [][NextEmit]_vars

\* one example file synced and checked while it is edited
InitSync ==
    /\ PackageIdle
    /\ DemoIdle
    /\ now = 0
    /\ nb_files \in [ExampleFiles ->
                       {NoExample, Example(TRUE, 0, FALSE, 0, "absent"),
                        Example(TRUE, 0, TRUE, 0, "stale")}]
    /\ nb_files["02_streaming"] = NoExample
    /\ sync_env = [jupytext |-> TRUE, examples_dir |-> TRUE]
    /\ sync_last = NoSyncCall

NextSync ==
    \/ Call_sync_file
    \/ Tick
    \/ WritePy
    \/ RemoveNotebook

SpecSync == InitSync /\ [][NextSync]_vars

\* the script run over an examples directory that may be missing or empty,
\* with and without jupytext
InitMain ==
    /\ PackageIdle
    /\ DemoIdle
    /\ now = 1
    /\ sync_env \in [jupytext : BOOLEAN, examples_dir : BOOLEAN]
    /\ nb_files \in [ExampleFiles ->
                       {NoExample, Example(TRUE, 0, FALSE, 0, "absent"),
                        Example(TRUE, 0, TRUE, 0, "stale"),
                        Example(TRUE, 1, TRUE, 0, "stale")}]
    /\ ~sync_env.examples_dir => nb_files = [f \in ExampleFiles |-> NoExample]
    /\ sync_last = NoSyncCall

NextMain == Call_main

SpecMain == InitMain /\ [][NextMain]_vars

\* A TokenCounterCallback from its construction on.
InitTokens ==
    /\ PackageIdle
    /\ ExtIdle

NextTokens ==
    \/ Call_on_llm_end
    \/ Call_get_summary

SpecTokens == InitTokens /\ [][NextTokens]_vars

\* One run of an example script's main().  The interpreter keeps running
\* main(), and every example function returns or raises.
InitExamples ==
    /\ PackageIdle
    /\ SyncIdle
    /\ callback = TokenCounterCallback
    /\ llm_events = <<>>
    /\ summary = NoSummary
    /\ example_run \in {[NoRun EXCEPT !.script = script] : script \in Scripts}
    /\ enhance_last = NoEnhanceCall

NextExamples ==
    \/ main_heading
    \/ main_try
    \/ main_banner

SpecExamples == InitExamples /\ [][NextExamples]_vars /\ WF_vars(NextExamples)

\* enhance_notebook on any converted notebook and any analysed .py file.
InitEnhance ==
    /\ PackageIdle
    /\ SyncIdle
    /\ callback = TokenCounterCallback
    /\ llm_events = <<>>
    /\ summary = NoSummary
    /\ example_run = NoRun
    /\ enhance_last \in {[NoEnhanceCall EXCEPT !.cells = cells, !.functions = functions] :
                            cells \in Notebooks, functions \in AnalyzedFunctions}

NextEnhance == Call_enhance_notebook

SpecEnhance == InitEnhance /\ [][NextEnhance]_vars

----------------------------------------------------------------------------
(* The documented contract, stated without the operators above *)

Providers == {openai, anthropic, gemini}

\* the upper-case and the lower-case form of each letter of the provider names
CasePairs ==
    { <<"A", "a">>, <<"C", "c">>, <<"E", "e">>, <<"G", "g">>, <<"H", "h">>,
      <<"I", "i">>, <<"M", "m">>, <<"N", "n">>, <<"O", "o">>, <<"P", "p">>,
      <<"R", "r">>, <<"T", "t">> }

\* s is the name p in some mix of upper and lower case
IsSpellingOf(s, p) ==
    /\ Len(s) = Len(p)
    /\ \A i \in 1..Len(p) : s[i] = p[i] \/ <<s[i], p[i]>> \in CasePairs

Recognized(s) == \E p \in Providers : IsSpellingOf(s, p)

Canonical(s) == CHOOSE p \in Providers : IsSpellingOf(s, p)

\* the table of section 6 of the specification
KeyVarName(p) ==
    CASE p = openai -> "EADLANGCHAIN_AI_OPENAI_API_KEY"
      [] p = anthropic -> "EADLANGCHAIN_AI_ANTHROPIC_API_KEY"
      [] p = gemini -> "EADLANGCHAIN_AI_GEMINI_API_KEY"

ModelVarName(p) ==
    CASE p = openai -> "EADLANGCHAIN_AI_OPENAI_MODEL"
      [] p = anthropic -> "EADLANGCHAIN_AI_ANTHROPIC_MODEL"
      [] p = gemini -> "EADLANGCHAIN_AI_GEMINI_MODEL"

\* the value the environment holds for a name right now, None when it holds none
Current(name) == IF name \in DOMAIN environ THEN environ[name] ELSE None

\* the last call was op and nothing it read has been modified since
Fresh(op) == last.op = op /\ ~last.stale

\* C1: for each of the three providers and every case spelling of its name,
\* get_key / get_api_key with the provider's API-key variable set to a
\* non-empty value returns exactly that value.
C1_KeyReturnedForEverySpelling ==
    \A p \in Providers :
        ( /\ Fresh("get_key")
          /\ IsSpellingOf(last.provider, p)
          /\ KeyVarName(p) \in DOMAIN environ
          /\ environ[KeyVarName(p)] /= "" )
        => /\ last.outcome.kind = "return"
           /\ last.outcome.value = environ[KeyVarName(p)]

C1_Witness ==
    /\ Fresh("get_key")
    /\ last.provider = <<"O", "p", "e", "n", "A", "I">>
    /\ Current("EADLANGCHAIN_AI_OPENAI_API_KEY") = "sk-1"
    /\ last.outcome = Return("sk-1")

\* C2: for every recognized provider, get_key(provider, required=True) raises
\* ConfigError exactly when the mapped variable is unset or empty, and the
\* message contains "API key not found" and the exact variable name.
C2_RequiredRaisesIffMissing ==
    \A p \in Providers :
        (Fresh("get_key") /\ last.required /\ IsSpellingOf(last.provider, p))
        => LET missing == Current(KeyVarName(p)) \in {None, ""} IN
           /\ (last.outcome.kind = "raise") <=> missing
           /\ (last.outcome.exc = "ConfigError") <=> missing
           /\ missing => /\ Contains(last.outcome.msg, "API key not found")
                         /\ Contains(last.outcome.msg, KeyVarName(p))

C2_Witness ==
    /\ Fresh("get_key")
    /\ last.required
    /\ last.provider = <<"O", "P", "E", "N", "A", "I">>
    /\ "EADLANGCHAIN_AI_OPENAI_API_KEY" \in DOMAIN environ
    /\ environ["EADLANGCHAIN_AI_OPENAI_API_KEY"] = ""
    /\ last.outcome.exc = "ConfigError"
    /\ Contains(last.outcome.msg, "EADLANGCHAIN_AI_OPENAI_API_KEY")

\* C3: for every recognized provider, get_key(provider, required=False) never
\* raises: it returns None when the variable is unset and the variable's
\* current value otherwise.
C3_OptionalNeverRaises ==
    \A p \in Providers :
        (Fresh("get_key") /\ ~last.required /\ IsSpellingOf(last.provider, p))
        => /\ last.outcome.kind = "return"
           /\ last.outcome.value = Current(KeyVarName(p))

C3_Witness ==
    /\ Fresh("get_key")
    /\ ~last.required
    /\ last.provider = anthropic
    /\ "EADLANGCHAIN_AI_ANTHROPIC_API_KEY" \notin DOMAIN environ
    /\ last.outcome = Return(None)

\* C4: for every provider string whose lower-cased form is none of the three
\* names, get_key raises ValueError with "Unknown provider" in the message,
\* whatever required and the environment are.
C4_UnknownProviderRaises ==
    (Fresh("get_key") /\ ~Recognized(last.provider))
    => /\ last.outcome.kind = "raise"
       /\ last.outcome.exc = "ValueError"
       /\ Contains(last.outcome.msg, "Unknown provider")

C4_Witness ==
    /\ Fresh("get_key")
    /\ ~last.required
    /\ last.provider =
         <<"n", "o", "t", "-", "a", "-", "p", "r", "o", "v", "i", "d", "e", "r">>
    /\ DOMAIN environ = KeyVars
    /\ last.outcome.exc = "ValueError"

\* C5: in every state of the environment get_all_keys / get_all_api_keys
\* returns, without raising, a mapping whose key set is exactly the three
\* providers, each value being the variable's current value or None.
C5_AllKeysAlwaysThreeEntries ==
    Fresh("get_all_keys")
    => /\ last.outcome.kind = "return"
       /\ DOMAIN last.outcome.value = Providers
       /\ \A p \in Providers : last.outcome.value[p] = Current(KeyVarName(p))

C5_Witness ==
    /\ Fresh("get_all_keys")
    /\ DOMAIN environ \cap KeyVars = {"EADLANGCHAIN_AI_OPENAI_API_KEY"}
    /\ last.outcome.kind = "return"
    /\ last.outcome.value[gemini] = None

\* C6: get_model_name never raises: it returns None for an unrecognized
\* provider, and for a recognized one the current value of its MODEL variable
\* or None when that is unset.
C6_ModelNameNeverRaises ==
    Fresh("get_model_name")
    => /\ last.outcome.kind = "return"
       /\ ~Recognized(last.provider) => last.outcome.value = None
       /\ \A p \in Providers :
              IsSpellingOf(last.provider, p)
              => last.outcome.value = Current(ModelVarName(p))

C6_Witness ==
    /\ Fresh("get_model_name")
    /\ last.provider =
         <<"n", "o", "t", "-", "a", "-", "p", "r", "o", "v", "i", "d", "e", "r">>
    /\ DOMAIN environ \cap ModelVars /= {}
    /\ last.outcome = Return(None)

\* C7: validate(provider) raises exactly when get_key(provider, True) raises,
\* with the same error kind and message, and returns None otherwise.
C7_ValidateIsRequiredGetKey ==
    Fresh("validate")
    => LET g == get_key(last.provider, TRUE) IN
       /\ (last.outcome.kind = "raise") <=> (g.kind = "raise")
       /\ g.kind = "raise" => (last.outcome.exc = g.exc /\ last.outcome.msg = g.msg)
       /\ g.kind = "return" => last.outcome = Return(None)

C7_Witness ==
    /\ Fresh("validate")
    /\ last.provider = <<"G", "E", "M", "I", "N", "I">>
    /\ last.outcome.exc = "ConfigError"
    /\ Contains(last.outcome.msg, "EADLANGCHAIN_AI_GEMINI_API_KEY")

\* what a lookup yields when it reads the environment as it is now
LiveGetKey(s, required) ==
    IF ~Recognized(s) THEN <<"raise", "ValueError", None>>
    ELSE LET v == Current(KeyVarName(Canonical(s))) IN
         IF required /\ v \in {None, ""} THEN <<"raise", "ConfigError", None>>
         ELSE <<"return", "", v>>

LiveValidate(s) ==
    LET g == LiveGetKey(s, TRUE) IN
    IF g[1] = "raise" THEN g ELSE <<"return", "", None>>

LiveGetAllKeys == <<"return", "", [p \in Providers |-> Current(KeyVarName(p))]>>

LiveGetModelName(s) ==
    <<"return", "", IF Recognized(s) THEN Current(ModelVarName(Canonical(s))) ELSE None>>

Observed == <<last.outcome.kind, last.outcome.exc, last.outcome.value>>

\* C8: lookups are never cached: the outcome of get_key, get_all_keys,
\* validate and get_model_name is the one the environment at the moment of
\* the call gives, whatever was set, unset or looked up before.
C8_LookupsReadTheLiveEnvironment ==
    /\ Fresh("get_key") => Observed = LiveGetKey(last.provider, last.required)
    /\ Fresh("validate") => Observed = LiveValidate(last.provider)
    /\ Fresh("get_all_keys") => Observed = LiveGetAllKeys
    /\ Fresh("get_model_name") => Observed = LiveGetModelName(last.provider)

\* the same lookup was made twice and the second one saw the change in between
C8_Witness ==
    /\ Fresh("get_key")
    /\ last.changed
    /\ last.outcome.kind = "return"
    /\ last.outcome.value = "sk-1"

\* the directories of the working directory's chain that hold a .env
WithDotenv(d) == {x \in Range(Chain(d)) : dotenv_files[x]}

\* the one of them nearest to the working directory
Nearest(d) == CHOOSE x \in WithDotenv(d) : \A y \in WithDotenv(d) : Len(y) <= Len(x)

\* this step is a call of load_env_config with the argument a
LoadStep(a) ==
    /\ last'.op = "load_env_config"
    /\ last'.env_file = a
    /\ ~last'.stale
    /\ cwd' = cwd
    /\ (last' /= last \/ environ' /= environ)

\* C9: load_env_config() without an argument loads only the first .env on the
\* chain working directory, parent, ..., root: a variable that was not set
\* before the call is set after it exactly when the nearest .env defines it,
\* and then to that file's value; a farther .env contributes nothing.
C9_FirstMatchWins ==
    [][ (LoadStep(NoArg) /\ WithDotenv(cwd) /= {})
        => \A n \in EnvVars \ DOMAIN environ :
              /\ n \in DOMAIN environ' <=> n \in DOMAIN DotenvContent(Nearest(cwd))
              /\ n \in DOMAIN environ' => environ'[n] = DotenvContent(Nearest(cwd))[n]
      ]_vars

C9_Witness ==
    /\ Fresh("load_env_config")
    /\ last.env_file = NoArg
    /\ cwd = WorkDir
    /\ WithDotenv(cwd) = {WorkDir, <<"work">>}
    /\ Current("EADLANGCHAIN_AI_ANTHROPIC_API_KEY") = "sk-sub"
    /\ "EADLANGCHAIN_AI_OPENAI_API_KEY" \notin DOMAIN environ

\* C10: when no directory from the working directory up to the root holds a
\* .env, load_env_config() with no argument completes without raising.
C10_NoDotenvNoError ==
    (Fresh("load_env_config") /\ last.env_file = NoArg /\ WithDotenv(cwd) = {})
    => last.outcome = Return(None)

C10_Witness ==
    /\ Fresh("load_env_config")
    /\ last.env_file = NoArg
    /\ \A d \in Dirs : ~dotenv_files[d]
    /\ last.outcome.kind = "return"

\* C11: when no directory from the working directory up to the root holds a
\* .env, load_env_config() with no argument leaves every environment variable
\* as it was before the call.
C11_NoDotenvLeavesEnvironment ==
    [][ (LoadStep(NoArg) /\ WithDotenv(cwd) = {}) => environ' = environ ]_vars

\* C12: load_env_config(path) with the path of an existing .env whose names
\* are all unset loads that file and nothing else: after the call the
\* environment is the old one plus every NAME=VALUE pair of the file, and the
\* API keys of the file are readable through get_key and pass validate.
C12_ExplicitPathLoadsOnlyThatFile ==
    [][ \A d \in Dirs :
          ( /\ LoadStep(PathOf(d))
            /\ dotenv_files[d]
            /\ DOMAIN DotenvContent(d) \cap DOMAIN environ = {} )
          => /\ DOMAIN environ' = DOMAIN environ \cup DOMAIN DotenvContent(d)
             /\ \A n \in DOMAIN environ : environ'[n] = environ[n]
             /\ \A n \in DOMAIN DotenvContent(d) : environ'[n] = DotenvContent(d)[n]
             /\ \A p \in Providers :
                   KeyVarName(p) \in DOMAIN DotenvContent(d)
                   => LET v == DotenvContent(d)[KeyVarName(p)] IN
                      /\ get_key(p, FALSE)' = Return(v)
                      /\ v /= "" => /\ get_key(p, TRUE)' = Return(v)
                                    /\ validate(p)' = Return(None)
      ]_vars

C12_Witness ==
    /\ Fresh("load_env_config")
    /\ last.env_file = PathOf(<<"proj">>)
    /\ cwd = WorkDir
    /\ dotenv_files[WorkDir]
    /\ dotenv_files[<<"proj">>]
    /\ environ = DotenvContent(<<"proj">>)
    /\ get_key(openai, TRUE) = Return("sk-proj")
    /\ validate(openai) = Return(None)

\* C13: get_key, get_all_keys, validate and get_model_name, called on an
\* instance or through the module wrappers, never create, change or delete an
\* environment variable, whether they return or raise; a step that changes
\* the environment is a call of load_env_config.
C13_OnlyTheLoaderWrites ==
    [][ environ' /= environ => (last'.op = "load_env_config" /\ ~last'.stale) ]_vars

\* a lookup that raised, made after the loader wrote the project's .env
C13_Witness ==
    /\ Fresh("get_key")
    /\ last.outcome.exc = "ConfigError"
    /\ Current("EADLANGCHAIN_AI_OPENAI_API_KEY") = "sk-proj"

----------------------------------------------------------------------------
(* The log formatter's contract *)

\* the record was formatted by a call of the given kind
FormatCall(via) == log_last.op = "format" /\ log_last.via = via

Formats == log_last.op = "format"

\* the part of the pathname below the formatter's root
UnderRoot(pathname) ==
    /\ pathname.is_path
    /\ Len(pathname.parts) > Len(formatter.project_root)
    /\ \A i \in 1..Len(formatter.project_root) :
           pathname.parts[i] = <<formatter.project_root[i]>>

Below(pathname) ==
    [i \in 1..(Len(pathname.parts) - Len(formatter.project_root)) |->
        pathname.parts[Len(formatter.project_root) + i]]

\* a file name without a final ".py"
WithoutPy(f) ==
    IF Len(f) >= 2 /\ SubSeq(f, Len(f) - 1, Len(f)) = <<".", "py">>
    THEN SubSeq(f, 1, Len(f) - 2) ELSE f

\* the components, the last one without its ".py", joined by "."
RECURSIVE Dotted(_)
Dotted(parts) ==
    IF Len(parts) = 1 THEN WithoutPy(parts[1])
    ELSE parts[1] \o <<".">> \o Dotted(Tail(parts))

\* C14: CustomFormatter.format never raises, for every record and every call
\* stack; each failing step degrades to a default value of its field and a
\* string is still returned.
C14_FormatNeverRaises ==
    Formats => log_last.outcome.kind = "return"

\* C15: a record emitted through a logger from inside an object's method is
\* formatted with metaclass_name = "<ClassName>." naming that object's class,
\* and a record emitted through a logger from a plain module-level function
\* is formatted with an empty metaclass_name.
C15_EnclosingTypeOfEmitter ==
    FormatCall("logger") =>
        /\ log_last.origin.self /= ""
               => log_last.record.metaclass_name = <<log_last.origin.self, ".">>
        /\ log_last.origin = Frame("", "")
               => log_last.record.metaclass_name = <<>>

\* C16: for a record whose pathname lies under the formatter's project root,
\* format sets relative_path to the path relative to that root with every
\* separator replaced by "." and a trailing ".py" removed.
C16_RelativePathLabel ==
    (Formats /\ UnderRoot(log_last.pathname)) =>
        /\ log_last.outcome.kind = "return"
        /\ log_last.record.relative_path = Dotted(Below(log_last.pathname))
        /\ log_last.outcome.value.relative_path = Dotted(Below(log_last.pathname))

\* <root>/tests/unit/test_logging.py gives tests.unit.test_logging
C16_Witness ==
    /\ Formats
    /\ formatter.project_root = <<"proj">>
    /\ log_last.pathname =
           File(<<<<"proj">>, <<"tests">>, <<"unit">>, <<"test_logging", ".", "py">>>>)
    /\ log_last.record.relative_path = <<"tests", ".", "unit", ".", "test_logging">>

\* C17: for a record whose pathname is a path not under the formatter's
\* project root, format sets relative_path to the record's bare module name
\* and still returns the formatted string.
C17_OutsideRootFallsBackToModule ==
    (Formats /\ log_last.pathname.is_path /\ ~UnderRoot(log_last.pathname)) =>
        /\ log_last.outcome.kind = "return"
        /\ log_last.record.relative_path = LogRecord(log_last.pathname).module
        /\ log_last.outcome.value.relative_path = LogRecord(log_last.pathname).module

\* /work/sub/script.py formatted under the root /proj/src gives "script"
C17_Witness ==
    /\ Formats
    /\ formatter.project_root = <<"proj", "src">>
    /\ log_last.pathname = File(<<<<"work">>, <<"sub">>, <<"script", ".", "py">>>>)
    /\ log_last.outcome.kind = "return"
    /\ log_last.record.relative_path = <<"script">>

\* the directories from d up to the filesystem root that hold a marker
MarkedAbove(d) ==
    {a \in Dirs : /\ Len(a) <= Len(d)
                  /\ a = SubSeq(d, 1, Len(a))
                  /\ markers[a] \in MarkerFiles}

\* C18: a CustomFormatter built with an explicit project_root uses exactly
\* that root; built without one, its root is the nearest directory on the
\* chain working directory, parent, ..., filesystem root that contains
\* pyproject.toml or .git, and the original working directory when no
\* directory on the chain contains a marker.
C18_ProjectRoot ==
    log_last.op = "CustomFormatter" =>
        IF log_last.arg.given
        THEN formatter.project_root = log_last.arg.dir
        ELSE IF MarkedAbove(log_last.cwd) = {}
        THEN formatter.project_root = log_last.cwd
        ELSE /\ formatter.project_root \in MarkedAbove(log_last.cwd)
             /\ \A a \in MarkedAbove(log_last.cwd) :
                    Len(a) <= Len(formatter.project_root)

\* markers in /proj and /proj/src, built from /proj/src/langchain_llm
C18_Witness ==
    /\ log_last.op = "CustomFormatter"
    /\ ~log_last.arg.given
    /\ log_last.cwd = ModuleDir
    /\ markers[<<"proj">>] = "pyproject.toml"
    /\ markers[<<"proj", "src">>] = ".git"
    /\ formatter.project_root = <<"proj", "src">>

----------------------------------------------------------------------------
(* The contract of setup_logging *)

\* the standard severity names and their levels
StandardLevels ==
    (<<"D", "E", "B", "U", "G">> :> 10) @@
    (<<"I", "N", "F", "O">> :> 20) @@
    (<<"W", "A", "R", "N", "I", "N", "G">> :> 30) @@
    (<<"E", "R", "R", "O", "R">> :> 40) @@
    (<<"C", "R", "I", "T", "I", "C", "A", "L">> :> 50)

LevelCasePairs ==
    { <<"A", "a">>, <<"B", "b">>, <<"C", "c">>, <<"D", "d">>, <<"E", "e">>,
      <<"F", "f">>, <<"G", "g">>, <<"I", "i">>, <<"L", "l">>, <<"N", "n">>,
      <<"O", "o">>, <<"R", "r">>, <<"T", "t">>, <<"U", "u">>, <<"W", "w">> }

\* s is the level name n in some mix of upper and lower case
IsLevelSpelling(s, n) ==
    /\ Len(s) = Len(n)
    /\ \A i \in 1..Len(n) : s[i] = n[i] \/ <<n[i], s[i]>> \in LevelCasePairs

SetUp == log_last.op = "setup_logging"

\* the level name the last call had to use
ResolvedLevel ==
    IF log_last.level.given THEN log_last.level.str
    ELSE IF LOG_LEVEL \in DOMAIN environ THEN environ[LOG_LEVEL]
    ELSE <<"I", "N", "F", "O">>

\* the log file the last call had to use; <<>> for none
ResolvedFile ==
    IF log_last.log_file.given THEN log_last.log_file.str
    ELSE IF LOG_FILE \in DOMAIN environ THEN environ[LOG_FILE]
    ELSE <<>>

\* C19: setup_logging sets the root logger's level by this precedence: the
\* explicit level argument if given, otherwise the value of
\* EADLANGCHAIN_LOG_LEVEL if set, otherwise INFO; level names are accepted
\* case-insensitively.
C19_LevelPrecedence ==
    SetUp =>
        \A n \in DOMAIN StandardLevels :
            IsLevelSpelling(ResolvedLevel, n)
                => /\ log_last.outcome.exc /= "AttributeError"
                   /\ root_logger.level = StandardLevels[n]

\* level="error" given while EADLANGCHAIN_LOG_LEVEL=Warning
C19_Witness ==
    /\ SetUp
    /\ log_last.level = Str(<<"e", "r", "r", "o", "r">>)
    /\ LOG_LEVEL \in DOMAIN environ
    /\ environ[LOG_LEVEL] = <<"W", "a", "r", "n", "i", "n", "g">>
    /\ log_last.outcome.kind = "return"
    /\ root_logger.level = 40

----------------------------------------------------------------------------
(* Safety of the required lookups *)

\* C28: whenever get_key(provider, required=True) or validate(provider)
\* returns normally, the provider's mapped API-key variable holds a non-empty
\* string at that moment and get_key's result is that string; a required
\* lookup never returns None or the empty string.
C28_RequiredLookupYieldsTheKey ==
    /\ (Fresh("get_key") /\ last.required /\ last.outcome.kind = "return")
           => /\ Recognized(last.provider)
              /\ Current(KeyVarName(Canonical(last.provider))) \notin {None, ""}
              /\ last.outcome.value = Current(KeyVarName(Canonical(last.provider)))
              /\ last.outcome.value \notin {None, ""}
    /\ (Fresh("validate") /\ last.outcome.kind = "return")
           => /\ Recognized(last.provider)
              /\ Current(KeyVarName(Canonical(last.provider))) \notin {None, ""}

\* validate returned for a provider whose key is set, right after the same
\* call had raised
C28_Witness ==
    /\ Fresh("validate")
    /\ last.outcome.kind = "return"
    /\ last.changed
    /\ last.provider = <<"A", "n", "t", "h", "r", "o", "p", "i", "c">>
    /\ Current("EADLANGCHAIN_AI_ANTHROPIC_API_KEY") = "sk-1"

----------------------------------------------------------------------------
(* The log file and the records written *)

LevelOf(call) ==
    IF call.level.given THEN call.level.str
    ELSE IF LOG_LEVEL \in DOMAIN environ THEN environ[LOG_LEVEL]
    ELSE <<"I", "N", "F", "O">>

FileOf(call) ==
    IF call.log_file.given THEN call.log_file.str
    ELSE IF LOG_FILE \in DOMAIN environ THEN environ[LOG_FILE]
    ELSE <<>>

\* every directory above the file exists
DirsAboveExist(path) ==
    \A d \in UNION {[1..n -> Range(path)] : n \in 1..(Len(path) - 1)} :
        (\A i \in DOMAIN d : d[i] = path[i]) => d \in log_fs

ClassesOf(handlers) == [i \in DOMAIN handlers |-> handlers[i].class]

\* C21: when a log file is resolved (the explicit log_file argument,
\* otherwise EADLANGCHAIN_LOG_FILE), setup_logging creates the file's missing
\* parent directories and adds a file handler next to the console handler, so
\* every record at or above the configured level is written to both console
\* and file and records below the level are written to neither; when no log
\* file is resolved, no file handler is added.
C21_LogFileDuplicatesOutput ==
    /\ (SetUp /\ log_last.outcome.kind = "return")
           => IF FileOf(log_last) /= <<>>
              THEN /\ DirsAboveExist(FileOf(log_last))
                   /\ FileOf(log_last) \in log_fs
                   /\ ClassesOf(root_logger.handlers) = <<"StreamHandler", "FileHandler">>
                   /\ root_logger.handlers[2].target = FileOf(log_last)
              ELSE ClassesOf(root_logger.handlers) = <<"StreamHandler">>
    /\ (/\ log_last.op = "log"
        /\ log_last.setup.op = "setup_logging"
        /\ log_last.setup.outcome.kind = "return")
           => \A n \in DOMAIN StandardLevels :
                  IsLevelSpelling(LevelOf(log_last.setup), n)
                      => log_last.written =
                             IF log_last.levelno < StandardLevels[n] THEN {}
                             ELSE IF FileOf(log_last.setup) = <<>> THEN {<<"<stderr>">>}
                             ELSE {<<"<stderr>">>, FileOf(log_last.setup)}

\* a WARNING record under EADLANGCHAIN_LOG_LEVEL=Warning and
\* log_file="logs/run/app.log"
C21_Witness ==
    /\ log_last.op = "log"
    /\ log_last.levelno = 30
    /\ log_last.setup.op = "setup_logging"
    /\ ~log_last.setup.level.given
    /\ LOG_LEVEL \in DOMAIN environ
    /\ log_last.setup.log_file = Str(<<"logs", "run", "app.log">>)
    /\ {<<"logs">>, <<"logs", "run">>, <<"logs", "run", "app.log">>} \subseteq log_fs
    /\ log_last.written = {<<"<stderr>">>, <<"logs", "run", "app.log">>}

\* C29: when setup_logging is called with a level name (argument or
\* EADLANGCHAIN_LOG_LEVEL) that is not an attribute of the logging module, it
\* raises, and the root logger's level and handler list are left exactly as
\* they were before the call.
C29_BadLevelLeavesRootLogger ==
    [][ (/\ log_last'.op = "setup_logging"
         /\ \A n \in DOMAIN StandardLevels : ~IsLevelSpelling(ResolvedLevel', n))
            => /\ log_last'.outcome.kind = "raise"
               /\ root_logger' = root_logger
      ]_vars

\* level="verbose" on a root logger at DEBUG with three handlers
C29_Witness ==
    /\ SetUp
    /\ log_last.level = Str(<<"v", "e", "r", "b", "o", "s", "e">>)
    /\ log_last.outcome.exc = "AttributeError"
    /\ root_logger.level = 10
    /\ Len(root_logger.handlers) = 3

----------------------------------------------------------------------------
(* The contract of the notebook sync script *)

Synced == sync_last.op = "sync_file"

\* the notebook was there and not older than the .py file when the call began
WasInSync == sync_last.was.nb_exists /\ sync_last.was.nb_mtime >= sync_last.was.py_mtime

\* C22: sync_file(py_file, check_only=True, ...) returns True exactly when
\* the matching .ipynb exists and its modification time is not older than the
\* .py file's, and False when the notebook is missing or older, for every
\* value of the enhance, add_exercises and force flags.
C22_CheckReportsSyncStatus ==
    (Synced /\ sync_last.check_only) => (sync_last.ret <=> WasInSync)

\* C23: in check-only mode sync_file never runs the jupytext conversion and
\* never creates, rewrites or enhances a notebook file, for every combination
\* of the other flags and every state of the two files.
C23_CheckOnlyTouchesNothing ==
    [][ (sync_last'.op = "sync_file" /\ sync_last'.check_only)
            => /\ sync_last'.runs = 0
               /\ nb_files' = nb_files
      ]_vars

\* --check --force on a file whose notebook is missing
C23_Witness ==
    /\ Synced
    /\ sync_last.check_only
    /\ sync_last.force
    /\ sync_last.enhance
    /\ ~sync_last.was.nb_exists
    /\ ~nb_files[sync_last.file].nb_exists
    /\ ~sync_last.ret

\* C24: outside check-only mode, sync_file skips conversion and returns True
\* when the notebook exists, is not older than the source and force is false;
\* otherwise it runs jupytext exactly once and returns False iff that
\* conversion fails; a failed enhancement step after a successful conversion
\* still yields True.
C24_SyncConvertsWhenNeeded ==
    (Synced /\ ~sync_last.check_only) =>
        IF WasInSync /\ ~sync_last.force
        THEN /\ sync_last.ret
             /\ sync_last.runs = 0
             /\ nb_files[sync_last.file] = sync_last.was
        ELSE /\ sync_last.runs = 1
             /\ sync_last.ret <=> sync_last.conv_ok
             /\ sync_last.conv_ok => nb_files[sync_last.file].nb_exists

\* the conversion succeeded, the enhancement failed, the result is True
C24_Witness ==
    /\ Synced
    /\ ~sync_last.check_only
    /\ sync_last.enhance
    /\ sync_last.conv_ok
    /\ ~sync_last.enh_ok
    /\ sync_last.was.nb_exists
    /\ sync_last.was.nb_mtime < sync_last.was.py_mtime
    /\ sync_last.runs = 1
    /\ sync_last.ret
    /\ nb_files[sync_last.file].nb_state = "converted"

\* the example files there are, in sorted order
Found == SelectSeq(ExampleOrder, LAMBDA f : nb_files[f].py_exists)

\* main called sync_file once on every example file, in order
CalledOnAll(calls) ==
    /\ Len(calls) = Len(Found)
    /\ \A i \in DOMAIN calls : calls[i].file = Found[i]

\* what the claim says about a run of main that ends in the record m
MainAsClaimed(m, dir_matters) ==
    IF ~sync_env.jupytext
    THEN m.exit = 1 /\ m.calls = <<>> /\ nb_files' = nb_files
    ELSE IF dir_matters /\ ~sync_env.examples_dir
    THEN m.exit = 1 /\ m.calls = <<>> /\ nb_files' = nb_files
    ELSE IF Found = <<>>
    THEN m.exit = 0 /\ m.calls = <<>> /\ nb_files' = nb_files
    ELSE /\ CalledOnAll(m.calls)
         /\ m.exit = IF \A i \in DOMAIN m.calls : m.calls[i].ret THEN 0 ELSE 1

\* C25, as stated: main exits with status 1 before touching any file when
\* jupytext is not installed, with status 0 when no example file is found,
\* and otherwise calls sync_file on every example file and exits with status
\* 0 exactly when every per-file result is True, else 1, in both modes.
C25_MainExitStatus ==
    [][ sync_last'.op = "main" => MainAsClaimed(sync_last', FALSE) ]_vars

\* C25, amended: as stated, and main exits with status 1 before touching any
\* file when the examples directory does not exist; status 0 for "no example
\* file" is for an existing directory without example files.
C25_MainExitStatusAmended ==
    [][ sync_last'.op = "main" => MainAsClaimed(sync_last', TRUE) ]_vars

\* a sync run over two files: the first conversion fails, the second one is
\* still made and succeeds, the exit status is 1
C25_Witness ==
    /\ sync_last.op = "main"
    /\ ~sync_last.check
    /\ Len(sync_last.calls) = 2
    /\ ~sync_last.calls[1].ret
    /\ sync_last.calls[1].runs = 1
    /\ sync_last.calls[2].ret
    /\ sync_last.calls[2].runs = 1
    /\ sync_last.exit = 1

----------------------------------------------------------------------------
(* The token counter's contract *)

\* the event carried a token_usage entry
Carried(e) == ~e.is_none /\ "token_usage" \in e.keys

\* a field of the event's token_usage, a missing field counting as 0
FieldOf(e, k) == IF k \in DOMAIN e.token_usage THEN e.token_usage[k] ELSE 0

RECURSIVE SumOver(_, _)
\* the sum of field k over the events that carried a token_usage entry
SumOver(events, k) ==
    IF events = <<>>
    THEN 0
    ELSE (IF Carried(Head(events)) THEN FieldOf(Head(events), k) ELSE 0)
             + SumOver(Tail(events), k)

\* C27: after any sequence of on_llm_end events on one TokenCounterCallback,
\* get_summary reports total_tokens, prompt_tokens and completion_tokens
\* equal to the sums of the corresponding token_usage fields over the events
\* that carried a token_usage entry, a missing field counting as 0; and an
\* event whose llm_output is empty or has no token_usage leaves all counters
\* unchanged.
C27_SummaryIsSumOfUsage ==
    [][/\ summary'.op = "get_summary" =>
              \A k \in UsageFields : summary'[k] = SumOver(llm_events', k)
       /\ (/\ Len(llm_events') = Len(llm_events) + 1
           /\ LET e == llm_events'[Len(llm_events')]
              IN  e.is_none \/ e.keys = {} \/ "token_usage" \notin e.keys)
              => callback' = callback]_vars

C27_Witness ==
    /\ summary.op = "get_summary"
    /\ Len(llm_events) = 2
    /\ Carried(llm_events[1])
    /\ ~Carried(llm_events[2])
    /\ DOMAIN llm_events[1].token_usage = {"total_tokens"}
    /\ summary.total_tokens = 2
    /\ summary.prompt_tokens = 0

----------------------------------------------------------------------------
(* The example scripts' main() *)

\* the calls made so far, in the order they were made
CallsOf(trace) == SelectSeq(trace, LAMBDA ev : ev.kind = "call")

\* main() has returned
Returned == example_run.pc = Len(examples_of(example_run.script)) + 2

\* C26: in an example script's main(), an exception raised by any one
\* example function is caught and reported with an "[ERROR]" line, every
\* later example function is still called in the fixed order, and the final
\* "[SUCCESS] ... complete!" banner is printed on every run, whichever subset
\* of the examples fails.
C26_MainSurvivesFailures ==
    /\ [](LET trace == example_run.trace
              script == example_run.script
              fns == examples_of(script)
              calls == CallsOf(trace)
          IN  /\ \A i \in DOMAIN trace :
                     (trace[i].kind = "call" /\ trace[i].type /= "returns")
                         => \E j \in DOMAIN trace :
                                /\ j > i
                                /\ trace[j].kind = "print"
                                /\ trace[j].text = "[ERROR]"
                                /\ \E x \in DOMAIN fns :
                                       /\ fns[x].fn = trace[i].text
                                       /\ fns[x].label = trace[j].label
                                /\ \A k \in (i + 1)..j : trace[k].kind /= "call"
              /\ Len(calls) <= Len(fns)
              /\ \A i \in DOMAIN calls : calls[i].text = fns[i].fn
              /\ Returned =>
                     /\ Len(calls) = Len(fns)
                     /\ trace[Len(trace)] \in
                            {Printed("[SUCCESS] Basic examples complete!"),
                             Printed("[SUCCESS] Advanced examples complete!")})
    /\ <>Returned

C26_Witness ==
    /\ Returned
    /\ example_run.script = "04_advanced"
    /\ LET calls == CallsOf(example_run.trace)
       IN  /\ calls[1].type = "Exception"
           /\ calls[2].type = "returns"
           /\ calls[3].type = "ValueError"
           /\ calls[5].type = "Exception"

----------------------------------------------------------------------------
(* The cells of an enhanced notebook *)

\* the function is eligible for an exercise: its name starts with none of
\* the skipped prefixes
Eligible(name) ==
    \A prefix \in {<<"m", "a", "i", "n">>, <<"_", "_", "i", "n", "i", "t", "_", "_">>,
                   <<"o", "n", "_">>, <<"g", "e", "t", "_">>, <<"h", "a", "v", "e", "_">>} :
        \/ Len(name) < Len(prefix)
        \/ \E i \in 1..Len(prefix) : name[i] /= prefix[i]

\* the cell was built by enhance_notebook
Added(cell) == cell.id = 0

IsExercise(cell) == Added(cell) /\ cell.cell_type = "markdown" /\ cell.source.about /= <<>>

IsExperiment(cell) ==
    /\ Added(cell)
    /\ cell.cell_type = "code"
    /\ cell.source.defs = {}
    /\ cell.source.text = "# Your experiments here"

\* C30: when enhance_notebook succeeds, every cell of the input notebook
\* appears exactly once in the output in its original relative order (a
\* docstring markdown cell with its text reformatted); the only added cells
\* are an exercise markdown cell followed by an empty code cell, inserted
\* directly after a code cell that defines an eligible function, at most
\* once per function name and at most once per code cell, and none at all
\* when add_exercises is false.
C30_EnhanceOnlyInsertsExercises ==
    (enhance_last.op = "enhance_notebook" /\ enhance_last.ret) =>
        LET in == enhance_last.cells
            out == enhance_last.output
            kept == SelectSeq(out, LAMBDA c : ~Added(c))
        IN  /\ Len(kept) = Len(in)
            /\ \A i \in DOMAIN in :
                   /\ kept[i].id = in[i].id
                   /\ kept[i].cell_type = in[i].cell_type
                   /\ kept[i].source.text = in[i].source.text
                   /\ kept[i].source.defs = in[i].source.defs
                   /\ in[i].cell_type /= "markdown" => kept[i] = in[i]
            /\ \A j \in DOMAIN out :
                   Added(out[j]) =>
                       \/ /\ IsExercise(out[j])
                          /\ j > 1
                          /\ ~Added(out[j - 1])
                          /\ out[j - 1].cell_type = "code"
                          /\ out[j].source.about \in out[j - 1].source.defs
                          /\ Eligible(out[j].source.about)
                          /\ j < Len(out)
                          /\ IsExperiment(out[j + 1])
                       \/ /\ IsExperiment(out[j])
                          /\ j > 1
                          /\ IsExercise(out[j - 1])
            /\ \A j, k \in DOMAIN out :
                   (IsExercise(out[j]) /\ IsExercise(out[k])
                        /\ out[j].source.about = out[k].source.about) => j = k
            /\ ~enhance_last.add_exercises => \A j \in DOMAIN out : ~Added(out[j])

C30_Witness ==
    /\ enhance_last.op = "enhance_notebook"
    /\ enhance_last.ret
    /\ enhance_last.add_exercises
    /\ Len(enhance_last.cells) = 2
    /\ enhance_last.cells[1].source.defs = {<<"r", "u", "n">>, <<"m", "a", "i", "n">>}
    /\ enhance_last.cells[2].source.defs = {<<"r", "u", "n">>}
    /\ Len(enhance_last.output) = 4
    /\ IsExercise(enhance_last.output[2])
    /\ enhance_last.output[4].id = 2

====
